---- MODULE Spec2Model ----
(***************************************************************************)
(* Verification model of the clone-detection pipeline:                     *)
(*   code_similarity.py            CodeSimilarity (full / partial)         *)
(*   slither_analyzer.py           SlitherAnalyzer (_extract_all_contracts,*)
(*                                 analyze)                                *)
(*   convert_json_contracts.py     extract_flatten_from_json               *)
(*   analyze_clone_vulnerabilities.py  cross-reference run                 *)
(*   nft_contract_analyzer.py      similarity_report, vulnerability_report *)
(*   run_mythril_prioritized.py    get_high_risk_contracts                 *)
(*   run_complete_analysis.py      analyze_with_slither, the scan of main  *)
(*   mythril_analyzer.py           MythrilAnalyzer.analyze_address         *)
(*                                                                         *)
(* Text is modelled as a sequence of characters (one-character strings).   *)
(* A float is modelled as the exact fraction it is computed from, kept in  *)
(* lowest terms: [num, den].                                               *)
(***************************************************************************)
EXTENDS Integers, Sequences, FiniteSets, TLC

VARIABLES
    pc,              \* position of the running call
    \* similarity engine
    code1,           \* first argument of the similarity call
    code2,           \* second argument of the similarity call
    full,            \* value returned by full_similarity
    partial,         \* value returned by partial_similarity
    \* SlitherAnalyzer.analyze
    code,            \* the payload handed to analyze
    processed_input, \* first component of _extract_all_contracts' result
    is_multi_file,   \* second component
    temp_dir,        \* third component
    temp_file_path,  \* the single-file temporary file of analyze
    disk_dirs,       \* temporary directories existing on disk
    disk_files,      \* temporary files existing on disk
    outcome,         \* how the call ended: what it returned or raised
    \* extract_flatten_from_json
    all_sources,     \* the files kept so far, with their retained lines
    seen_licenses,   \* the distinct license lines met so far
    main_pragma,     \* the first version pragma met, if any
    seen_files,      \* the names of the entries already iterated over
    flattened,       \* the value returned: a text or None
    license_lines,   \* the license lines of the entries read so far
    \* analyze_clone_vulnerabilities.main
    similarity,      \* similarity_report.json
    vulnerabilities, \* vulnerability_report.json
    high_risk_pairs, \* the pairs on or above the threshold, highest first
    idx,             \* number of high-risk pairs processed
    results,         \* the pairs found to share vulnerabilities
    pairs_with_shared_vulns,
    pairs_both_analyzed,
    crossref_json,   \* CLONE_VULNERABILITY_CROSSREF.json
    crossref_md,     \* CLONE_VULNERABILITY_CROSSREF.md
    crossref_outcome, \* how the run ended: completed, or the error raised
    \* corpus comparison
    contracts,       \* the fetched contracts: address and source code
    report,          \* the similarity records, by key
    pair_num,        \* number of pairs compared
    \* compare_vulnerabilities
    vuln1_issues,    \* the findings of the first contract
    vuln2_issues,    \* the findings of the second contract
    shared_list,     \* the list returned
    \* run_mythril_prioritized.get_high_risk_contracts
    contract_risk,   \* the risk map: addresses with their risk scores
    sorted_contracts, \* the addresses returned, highest risk first
    \* the vulnerability scans of main.py and run_complete_analysis.main
    pipeline,        \* the script that runs: main or run_complete_analysis
    contract_addresses, \* the addresses to analyze, in order
    scan_idx,        \* number of addresses analyzed so far
    scan_log,        \* how each analysis went, in order
    vulnerability_report, \* the analysis records, by address
    vuln_successful,
    vuln_failed,
    total_issues,
    total_high,
    total_medium,
    total_low,
    vulnerability_json \* vulnerability_report.json as the script writes it

simVars == <<code1, code2, full, partial>>

slitherVars == <<code, processed_input, is_multi_file, temp_dir, temp_file_path,
                 disk_dirs, disk_files, outcome>>

flattenVars == <<all_sources, seen_licenses, main_pragma, seen_files, flattened,
                 license_lines>>

xrefVars == <<similarity, vulnerabilities, high_risk_pairs, idx, results,
              pairs_with_shared_vulns, pairs_both_analyzed, crossref_json,
              crossref_md, crossref_outcome>>

corpusVars == <<contracts, report, pair_num>>

compareVars == <<vuln1_issues, vuln2_issues, shared_list>>

riskVars == <<contract_risk, sorted_contracts>>

scanVars == <<pipeline, contract_addresses, scan_idx, scan_log, vulnerability_report,
              vuln_successful, vuln_failed, total_issues, total_high, total_medium,
              total_low, vulnerability_json>>

vars == <<pc, simVars, slitherVars, flattenVars, xrefVars, corpusVars, compareVars,
          riskVars, scanVars>>

None == "None"

\* the variables of a component that is not running
SimIdle ==
    /\ code1 = <<>>
    /\ code2 = <<>>
    /\ full = None
    /\ partial = None

SlitherIdle ==
    /\ code = None
    /\ processed_input = None
    /\ is_multi_file = FALSE
    /\ temp_dir = None
    /\ temp_file_path = None
    /\ disk_dirs = {}
    /\ disk_files = {}
    /\ outcome = None

FlattenIdle ==
    /\ all_sources = <<>>
    /\ seen_licenses = {}
    /\ main_pragma = None
    /\ seen_files = {}
    /\ flattened = None
    /\ license_lines = {}

XrefIdle ==
    /\ similarity = <<>>
    /\ vulnerabilities = <<>>
    /\ high_risk_pairs = <<>>
    /\ idx = 0
    /\ results = <<>>
    /\ pairs_with_shared_vulns = 0
    /\ pairs_both_analyzed = 0
    /\ crossref_json = None
    /\ crossref_md = None
    /\ crossref_outcome = None

CorpusIdle ==
    /\ contracts = <<>>
    /\ report = <<>>
    /\ pair_num = 0

CompareIdle ==
    /\ vuln1_issues = <<>>
    /\ vuln2_issues = <<>>
    /\ shared_list = <<>>

RiskIdle ==
    /\ contract_risk = <<>>
    /\ sorted_contracts = <<>>

ScanIdle ==
    /\ pipeline = None
    /\ contract_addresses = <<>>
    /\ scan_idx = 0
    /\ scan_log = <<>>
    /\ vulnerability_report = <<>>
    /\ vuln_successful = 0
    /\ vuln_failed = 0
    /\ total_issues = 0
    /\ total_high = 0
    /\ total_medium = 0
    /\ total_low = 0
    /\ vulnerability_json = None

---------------------------------------------------------------------------
(* Generic helpers *)

Range(s) == {s[i] : i \in 1..Len(s)}

RECURSIVE SeqsUpTo(_, _)
\* all sequences over S of length at most n
SeqsUpTo(S, n) ==
    IF n = 0 THEN {<<>>}
    ELSE LET shorter == SeqsUpTo(S, n - 1)
         IN  shorter \cup {Append(s, c) : s \in {t \in shorter : Len(t) = n - 1}, c \in S}

RECURSIVE Gcd(_, _)
Gcd(a, b) == IF b = 0 THEN a ELSE Gcd(b, a % b)

\* the fraction n/d in lowest terms (d > 0)
Rat(n, d) == LET g == Gcd(n, d) IN [num |-> n \div g, den |-> d \div g]

RatLeq(x, y) == x.num * y.den <= y.num * x.den

RatMul(x, y) == Rat(x.num * y.num, x.den * y.den)

One == Rat(1, 1)

Zero == Rat(0, 1)

---------------------------------------------------------------------------
(* Bounds.  Lengths are counted in model characters: the three length      *)
(* thresholds of the similarity engine keep their order of use but are     *)
(* scaled down so that every branch is exercised by short strings.         *)

\* stands for the 50000 of full_similarity (code_similarity.py:15)
LargeFileChars == 4

\* stands for the 10000 of the samples (code_similarity.py:20-21)
SampleChars == 3

\* stands for the 200 from which difflib's autojunk heuristic applies
AutoJunkMinLen == 3

\* number of distinct digest values (md5 has 2^128)
DigestSpace == 8

MaxLen == LargeFileChars + 1

Chars == {"a", "b"}

Sources == SeqsUpTo(Chars, MaxLen)

---------------------------------------------------------------------------
(* difflib.SequenceMatcher(None, a, b).ratio(), as full_similarity uses it *)

Count(s, c) == Cardinality({i \in 1..Len(s) : s[i] = c})

\* __chain_b: with isjunk = None only the autojunk heuristic removes
\* elements of b from the index b2j: those occurring more than 1% + 1 times
\* in a b of at least AutoJunkMinLen elements.
Popular(b) ==
    IF Len(b) >= AutoJunkMinLen
    THEN {c \in Range(b) : Count(b, c) > (Len(b) \div 100) + 1}
    ELSE {}

RECURSIVE RunLen(_, _, _, _, _, _, _)
\* j2len[j] after row i of find_longest_match: the length of the run of
\* equal, indexed elements that ends at a[i], b[j] inside the window.
RunLen(a, b, pop, alo, blo, i, j) ==
    IF i < alo \/ j < blo THEN 0
    ELSE IF a[i] # b[j] \/ b[j] \in pop THEN 0
    ELSE 1 + RunLen(a, b, pop, alo, blo, i - 1, j - 1)

RECURSIVE ExtendLeft(_, _, _, _, _)
ExtendLeft(a, b, alo, blo, m) ==
    IF m[1] > alo /\ m[2] > blo /\ a[m[1] - 1] = b[m[2] - 1]
    THEN ExtendLeft(a, b, alo, blo, <<m[1] - 1, m[2] - 1, m[3] + 1>>)
    ELSE m

RECURSIVE ExtendRight(_, _, _, _, _)
ExtendRight(a, b, ahi, bhi, m) ==
    IF m[1] + m[3] < ahi /\ m[2] + m[3] < bhi /\ a[m[1] + m[3]] = b[m[2] + m[3]]
    THEN ExtendRight(a, b, ahi, bhi, <<m[1], m[2], m[3] + 1>>)
    ELSE m

\* find_longest_match(alo, ahi, blo, bhi) over a[alo..ahi-1], b[blo..bhi-1]:
\* <<besti, bestj, bestsize>>.  The scan takes the first strictly longer
\* run in (i ascending, j ascending) order, then extends it on both sides
\* over equal elements (no element is junk, so the junk loops do nothing).
find_longest_match(a, b, pop, alo, ahi, blo, bhi) ==
    LET ends  == {p \in (alo..(ahi - 1)) \X (blo..(bhi - 1)) :
                     RunLen(a, b, pop, alo, blo, p[1], p[2]) > 0}
        k(p)  == RunLen(a, b, pop, alo, blo, p[1], p[2])
        top   == {p \in ends : \A q \in ends : k(q) <= k(p)}
        first == CHOOSE p \in top : \A q \in top :
                     p[1] < q[1] \/ (p[1] = q[1] /\ p[2] <= q[2])
        found == IF ends = {} THEN <<alo, blo, 0>>
                 ELSE <<first[1] - k(first) + 1, first[2] - k(first) + 1, k(first)>>
    IN  ExtendRight(a, b, ahi, bhi, ExtendLeft(a, b, alo, blo, found))

RECURSIVE MatchedChars(_, _, _, _, _, _, _)
\* sum of the sizes of get_matching_blocks() inside the window
MatchedChars(a, b, pop, alo, ahi, blo, bhi) ==
    LET m == find_longest_match(a, b, pop, alo, ahi, blo, bhi)
    IN  IF m[3] = 0 THEN 0
        ELSE m[3]
             + (IF alo < m[1] /\ blo < m[2]
                THEN MatchedChars(a, b, pop, alo, m[1], blo, m[2]) ELSE 0)
             + (IF m[1] + m[3] < ahi /\ m[2] + m[3] < bhi
                THEN MatchedChars(a, b, pop, m[1] + m[3], ahi, m[2] + m[3], bhi) ELSE 0)

\* the mutant of ratio: every match counted on both sides twice
ratio_Doubled(a, b) ==
    LET length  == Len(a) + Len(b)
        matches == MatchedChars(a, b, Popular(b), 1, Len(a) + 1, 1, Len(b) + 1)
    IN  IF length > 0 THEN Rat(4 * matches, length) ELSE One

\* _calculate_ratio(matches, len(a) + len(b))
ratio(a, b) ==
    LET length  == Len(a) + Len(b)
        matches == MatchedChars(a, b, Popular(b), 1, Len(a) + 1, 1, Len(b) + 1)
    IN  IF length > 0 THEN Rat(2 * matches, length) ELSE One

---------------------------------------------------------------------------
(* CodeSimilarity.full_similarity *)

Ord(c) == IF c = "a" THEN 1 ELSE 2

RECURSIVE Md5(_)
\* hashlib.md5(code.encode()).hexdigest(): a fixed-width digest of the
\* whole text, so distinct texts can share a digest.
Md5(text) ==
    IF text = <<>> THEN 0
    ELSE (Md5(SubSeq(text, 1, Len(text) - 1)) * 3 + Ord(text[Len(text)])) % DigestSpace

Prefix(text, n) == SubSeq(text, 1, IF Len(text) < n THEN Len(text) ELSE n)

CapNum == 95

CapDen == 100

\* mutant: the large-file sampling is tried before the exact-clone shortcuts
full_similarity_SampledFirst(c1, c2) ==
    IF Len(c1) > LargeFileChars \/ Len(c2) > LargeFileChars
    THEN RatMul(ratio(Prefix(c1, SampleChars), Prefix(c2, SampleChars)),
                Rat(CapNum, CapDen))
    ELSE IF c1 = c2 THEN One ELSE ratio(c1, c2)

\* mutant: the sampled ratio is returned without the 0.95 factor
full_similarity_Uncapped(c1, c2) ==
    IF c1 = c2 THEN One
    ELSE IF Len(c1) > LargeFileChars \/ Len(c2) > LargeFileChars
         THEN IF Md5(c1) = Md5(c2) THEN One
              ELSE ratio(Prefix(c1, SampleChars), Prefix(c2, SampleChars))
         ELSE ratio(c1, c2)

full_similarity(c1, c2) ==
    IF c1 = c2 THEN One
    ELSE IF Len(c1) > LargeFileChars \/ Len(c2) > LargeFileChars
         THEN IF Md5(c1) = Md5(c2) THEN One
              ELSE RatMul(ratio(Prefix(c1, SampleChars), Prefix(c2, SampleChars)),
                          Rat(CapNum, CapDen))
         ELSE ratio(c1, c2)

---------------------------------------------------------------------------
(* Specification of the full-similarity call *)

InitFull ==
    /\ pc = "ready"
    /\ code1 \in Sources
    /\ code2 \in Sources
    /\ full = None
    /\ partial = None
    /\ SlitherIdle
    /\ FlattenIdle
    /\ XrefIdle
    /\ CorpusIdle
    /\ CompareIdle
    /\ RiskIdle
    /\ ScanIdle

CallFullSimilarity ==
    /\ pc = "ready"
    /\ full' = full_similarity(code1, code2)
    /\ pc' = "done"
    /\ UNCHANGED <<code1, code2, partial>>
    /\ UNCHANGED <<slitherVars, flattenVars, xrefVars, corpusVars, compareVars, riskVars, scanVars>>

NextFull == CallFullSimilarity

SpecFull == InitFull /\ [][NextFull]_vars

IsLarge(text) == Len(text) > LargeFileChars

\* C1: the full similarity of a pair does not depend on the order of the
\* two sources: full_similarity(a, b) = full_similarity(b, a).
C1_FullSimilaritySymmetric ==
    pc = "done" => full = full_similarity(code2, code1)

\* C7: comparing a source with itself returns exactly 1.0, whatever its
\* length.
C7_IdenticalIsOne ==
    (pc = "done" /\ code1 = code2) => full = One

C7_Witness ==
    /\ pc = "done"
    /\ code1 = code2
    /\ IsLarge(code1)
    /\ full = One

\* C8: two large sources that differ and whose digests differ never score
\* above 0.95.
C8_LargeAtMostCap ==
    (/\ pc = "done"
     /\ code1 # code2
     /\ Md5(code1) # Md5(code2)
     /\ IsLarge(code1)
     /\ IsLarge(code2)) => RatLeq(full, Rat(CapNum, CapDen))

C8_Witness ==
    /\ pc = "done"
    /\ code1 # code2
    /\ Md5(code1) # Md5(code2)
    /\ IsLarge(code1)
    /\ IsLarge(code2)
    /\ full = Rat(CapNum, CapDen)

\* the pair takes the sampling branch as far as lengths go: the sources
\* differ and one of them is large
LargePair == code1 # code2 /\ (IsLarge(code1) \/ IsLarge(code2))

\* the sequence-matching ratio of the two samples
SampledRatio == ratio(Prefix(code1, SampleChars), Prefix(code2, SampleChars))

\* C22: for a large pair whose digests differ the result is the ratio of
\* the two samples capped at 0.95: min(ratio, 0.95).
C22_SampledIsMinOfRatioAndCap ==
    (pc = "done" /\ LargePair /\ Md5(code1) # Md5(code2)) =>
        full = IF RatLeq(SampledRatio, Rat(CapNum, CapDen))
               THEN SampledRatio ELSE Rat(CapNum, CapDen)

---------------------------------------------------------------------------
(* CodeSimilarity._solidity_function_names and partial_similarity *)

Space == {" ", "\n"}

Letters == {"a", "b", "c", "f", "g", "i", "n", "o", "t", "u", "x", "_"}

Digits == {"1"}

\* [A-Za-z_]
IdentStart == Letters

\* [A-Za-z0-9_], which is also the class \w of the word boundary \b
IdentChar == Letters \cup Digits

FunctionKw == <<"f", "u", "n", "c", "t", "i", "o", "n">>

RECURSIVE SpanEnd(_, _, _)
\* first position at or after i whose character is not in class
\* (Len(s) + 1 when the run reaches the end of the text)
SpanEnd(s, i, class) ==
    IF i <= Len(s) /\ s[i] \in class THEN SpanEnd(s, i + 1, class) ELSE i

\* mutant: the pattern without its leading word boundary
MatchAt_NoBoundary(s, i) ==
    LET kwEnd  == i + Len(FunctionKw)
        wsEnd  == SpanEnd(s, kwEnd, Space)
        idEnd  == SpanEnd(s, wsEnd, IdentChar)
        ws2End == SpanEnd(s, idEnd, Space)
    IN  [ok   |-> /\ kwEnd - 1 <= Len(s)
                  /\ SubSeq(s, i, kwEnd - 1) = FunctionKw
                  /\ wsEnd > kwEnd
                  /\ wsEnd <= Len(s)
                  /\ s[wsEnd] \in IdentStart
                  /\ ws2End <= Len(s)
                  /\ s[ws2End] = "(",
         name |-> SubSeq(s, wsEnd, idEnd - 1),
         next |-> ws2End + 1]

\* One attempt of the pattern \bfunction\s+([A-Za-z_][A-Za-z0-9_]*)\s*\(
\* at position i.  Every quantifier is greedy and what follows each run
\* cannot start with a character of the run's class, so backtracking never
\* finds a match the maximal runs miss.
MatchAt(s, i) ==
    LET kwEnd  == i + Len(FunctionKw)
        wsEnd  == SpanEnd(s, kwEnd, Space)
        idEnd  == SpanEnd(s, wsEnd, IdentChar)
        ws2End == SpanEnd(s, idEnd, Space)
    IN  [ok   |-> /\ (i = 1 \/ s[i - 1] \notin IdentChar)
                  /\ kwEnd - 1 <= Len(s)
                  /\ SubSeq(s, i, kwEnd - 1) = FunctionKw
                  /\ wsEnd > kwEnd
                  /\ wsEnd <= Len(s)
                  /\ s[wsEnd] \in IdentStart
                  /\ ws2End <= Len(s)
                  /\ s[ws2End] = "(",
         name |-> SubSeq(s, wsEnd, idEnd - 1),
         next |-> ws2End + 1]

RECURSIVE FindNames(_, _)
\* re.finditer: leftmost matches, scanning on after the end of each match
FindNames(s, i) ==
    IF i > Len(s) THEN {}
    ELSE LET m == MatchAt(s, i)
         IN  IF m.ok THEN {m.name} \cup FindNames(s, m.next)
             ELSE FindNames(s, i + 1)

_solidity_function_names(text) == FindNames(text, 1)

\* mutant: the intersection is divided by the first set, not by the union
partial_similarity_OverFirst(c1, c2) ==
    LET funcs1 == _solidity_function_names(c1)
        funcs2 == _solidity_function_names(c2)
    IN  IF funcs1 = {} THEN Zero
        ELSE Rat(Cardinality(funcs1 \cap funcs2), Cardinality(funcs1))

partial_similarity(c1, c2) ==
    LET funcs1 == _solidity_function_names(c1)
        funcs2 == _solidity_function_names(c2)
        union  == funcs1 \cup funcs2
    IN  IF union = {} THEN Zero
        ELSE Rat(Cardinality(funcs1 \cap funcs2), Cardinality(union))

---------------------------------------------------------------------------
(* Specification of the partial-similarity call.  The sources are built    *)
(* from declaration-like fragments, so that the pattern meets names,       *)
(* spacing, a missing word boundary, a non-identifier, a missing           *)
(* parenthesis and repeated declarations.                                  *)

MaxFragments == 2

Fragments == {
    <<"f","u","n","c","t","i","o","n"," ","f","(">>,
    <<"f","u","n","c","t","i","o","n"," ","\n","g","1"," ","(">>,
    <<"f","u","n","c","t","i","o","n"," ","_","x","(">>,
    <<"x","f","u","n","c","t","i","o","n"," ","a","(">>,
    <<"f","u","n","c","t","i","o","n"," ","1","b">> }

RECURSIVE Concat(_)
Concat(frags) == IF frags = <<>> THEN <<>> ELSE Head(frags) \o Concat(Tail(frags))

FnSources == {Concat(fs) : fs \in SeqsUpTo(Fragments, MaxFragments)}

InitPartial ==
    /\ pc = "ready"
    /\ code1 \in FnSources
    /\ code2 \in FnSources
    /\ full = None
    /\ partial = None
    /\ SlitherIdle
    /\ FlattenIdle
    /\ XrefIdle
    /\ CorpusIdle
    /\ CompareIdle
    /\ RiskIdle
    /\ ScanIdle

CallPartialSimilarity ==
    /\ pc = "ready"
    /\ partial' = partial_similarity(code1, code2)
    /\ pc' = "done"
    /\ UNCHANGED <<code1, code2, full>>
    /\ UNCHANGED <<slitherVars, flattenVars, xrefVars, corpusVars, compareVars, riskVars, scanVars>>

NextPartial == CallPartialSimilarity

SpecPartial == InitPartial /\ [][NextPartial]_vars

\* The names declared in a text, stated position by position: name is
\* declared when the keyword `function` starts at a word boundary, is
\* followed by at least one white-space character, then by name (an
\* identifier), then by optional white space and an opening parenthesis.
DeclaredNames(s) ==
    LET starts == {p \in 1..Len(s) :
                      /\ s[p] \in IdentStart
                      /\ \E i \in 1..Len(s) :
                            /\ i = 1 \/ s[i - 1] \notin IdentChar
                            /\ i + Len(FunctionKw) < p
                            /\ SubSeq(s, i, i + Len(FunctionKw) - 1) = FunctionKw
                            /\ \A t \in (i + Len(FunctionKw))..(p - 1) : s[t] \in Space}
        ends(p) == {q \in p..Len(s) :
                      /\ \A t \in p..q : s[t] \in IdentChar
                      /\ \E r \in (q + 1)..Len(s) :
                            /\ s[r] = "("
                            /\ \A t \in (q + 1)..(r - 1) : s[t] \in Space}
    IN  UNION {{SubSeq(s, p, q) : q \in ends(p)} : p \in starts}

Jaccard(A, B) ==
    IF A \cup B = {} THEN Zero
    ELSE Rat(Cardinality(A \cap B), Cardinality(A \cup B))

\* C9: the partial similarity of a pair does not depend on the order of
\* the two sources.
C9_PartialSimilaritySymmetric ==
    pc = "done" => partial = partial_similarity(code2, code1)

C9_Witness ==
    /\ pc = "done"
    /\ DeclaredNames(code1) # {}
    /\ DeclaredNames(code2) # {}
    /\ Cardinality(DeclaredNames(code1)) # Cardinality(DeclaredNames(code2))
    /\ partial = Rat(1, 2)

\* C10: the partial similarity is the Jaccard index of the two sets of
\* declared function names, and 0.0 when neither source declares one.
C10_PartialIsJaccard ==
    pc = "done" =>
        LET F1 == DeclaredNames(code1)
            F2 == DeclaredNames(code2)
        IN  /\ partial = Jaccard(F1, F2)
            /\ (F1 = {} /\ F2 = {}) => partial = Zero

C10_Witness ==
    /\ pc = "done"
    /\ Cardinality(DeclaredNames(code1) \cap DeclaredNames(code2)) = 1
    /\ Cardinality(DeclaredNames(code1) \cup DeclaredNames(code2)) = 3
    /\ partial = Rat(1, 3)

C10_WitnessNoDeclaration ==
    /\ pc = "done"
    /\ code1 # <<>>
    /\ code2 # <<>>
    /\ code1 # code2
    /\ DeclaredNames(code1) \cup DeclaredNames(code2) = {}
    /\ partial = Zero

---------------------------------------------------------------------------
(* SlitherAnalyzer._extract_all_contracts                                  *)
(*                                                                         *)
(* A payload is modelled by what json.loads makes of it (after the strip   *)
(* and the removal of one outer brace pair of a `{{` payload):             *)
(*   plain               the trimmed text does not start with `{`          *)
(*   malformed           it does, and json.loads raises JSONDecodeError    *)
(*   no_sources          an object without the key "sources"; embedded     *)
(*                       says whether a top-level value is an object with  *)
(*                       a "content" key, and whether that content is text *)
(*   sources_falsy       "sources" is {}, [], null, 0, "" or false         *)
(*   sources_not_object  "sources" is a non-empty list, text, number, true *)
(*   sources             "sources" is a non-empty object: the entries, in  *)
(*                       the payload's order                               *)
(* A file name is a sequence of text pieces; a content is represented by   *)
(* what the selection reads of it: whether it contains `contract ` or      *)
(* `interface `, and its length.                                           *)

MaxFiles == 2

FileNames == {
    <<"contracts", "/", "MyNFT.sol">>,
    <<"@openzeppelin", "/", "contracts", "/", "ERC721.sol">>,
    <<"@Chainlink", "/", "Oracle.sol">>,
    <<"/", "src", "/", "Helper.sol">>,
    <<"..", "/", "Escape.sol">> }

ContentLengths == {20, 100020, 100600}

\* shape of one value of "sources": an object with a text content, an
\* object without "content", a value that is no object, an object whose
\* content is not text
Shapes == {"ok", "no_content", "not_object", "content_not_text"}

Entries ==
    [filename : FileNames, shape : {"ok"}, keyword : BOOLEAN, length : ContentLengths]
    \cup [filename : FileNames, shape : Shapes \ {"ok"}, keyword : {FALSE}, length : {0}]

DistinctNames(es) == \A i, j \in 1..Len(es) : i # j => es[i].filename # es[j].filename

SourceLists == {es \in SeqsUpTo(Entries, MaxFiles) : es # <<>> /\ DistinctNames(es)}

Payloads ==
    [kind : {"plain", "malformed", "sources_falsy", "sources_not_object"},
     embedded : {"none"}, sources : {<<>>}]
    \cup [kind : {"no_sources"}, embedded : {"none", "text", "not_text"}, sources : {<<>>}]
    \cup [kind : {"sources"}, embedded : {"none"}, sources : SourceLists]

Lower(piece) ==
    CASE piece = "@Chainlink" -> "@chainlink"
      [] piece = "MyNFT.sol"  -> "mynft.sol"
      [] piece = "ERC721.sol" -> "erc721.sol"
      [] piece = "Oracle.sol" -> "oracle.sol"
      [] piece = "Helper.sol" -> "helper.sol"
      [] piece = "Escape.sol" -> "escape.sol"
      [] OTHER -> piece

LowerName(name) == [i \in 1..Len(name) |-> Lower(name[i])]

\* needle in text, for texts given as sequences of pieces
Contains(text, needle) ==
    \E i \in 1..(Len(text) - Len(needle) + 1) :
        SubSeq(text, i, i + Len(needle) - 1) = needle

LibraryNames == {<<"@openzeppelin">>, <<"node_modules">>, <<"@chainlink">>}

IsLibrary(filename) == \E lib \in LibraryNames : Contains(LowerName(filename), lib)

IsInContracts(filename) ==
    Contains(filename, <<"contracts", "/">>) \/ Contains(filename, <<"contracts", "\\">>)

NonLibraryBonus == 100000

ContractsBonus == 10000

Priority(e) ==
    (IF IsLibrary(e.filename) THEN 0 ELSE NonLibraryBonus)
    + (IF IsInContracts(e.filename) THEN ContractsBonus ELSE 0)
    + e.length

RECURSIVE LStrip(_)
\* filename.lstrip('/')
LStrip(name) == IF name # <<>> /\ Head(name) = "/" THEN LStrip(Tail(name)) ELSE name

\* os.path.join(temp_dir, clean_filename)
JoinPath(dir, name) == [dir |-> dir, rel |-> LStrip(name)]

RECURSIVE InsertDesc_BeforeEquals(_, _)
\* the mutant of InsertDesc: c is placed before the elements of its priority
InsertDesc_BeforeEquals(sorted, c) ==
    IF sorted = <<>> THEN <<c>>
    ELSE IF Head(sorted)[1] > c[1]
         THEN <<Head(sorted)>> \o InsertDesc_BeforeEquals(Tail(sorted), c)
    ELSE <<c>> \o sorted

RECURSIVE InsertDesc(_, _)
\* place c after every element whose priority is at least its own
InsertDesc(sorted, c) ==
    IF sorted = <<>> THEN <<c>>
    ELSE IF Head(sorted)[1] >= c[1] THEN <<Head(sorted)>> \o InsertDesc(Tail(sorted), c)
    ELSE <<c>> \o sorted

RECURSIVE SortDesc(_)
\* list.sort(reverse=True, key=priority): descending and stable
SortDesc(cands) ==
    IF cands = <<>> THEN <<>>
    ELSE InsertDesc(SortDesc(SubSeq(cands, 1, Len(cands) - 1)), cands[Len(cands)])

RECURSIVE WriteSources(_, _, _, _, _)
\* The loop over sources.items(): each file is written under dir and the
\* files containing a contract or interface keyword become candidates.
\* The loop ends at the first exception, the files written so far staying.
WriteSources(es, i, dir, files, cands) ==
    IF i > Len(es) THEN [exc |-> None, files |-> files, cands |-> cands]
    ELSE LET e    == es[i]
             path == JoinPath(dir, e.filename)
         IN  IF e.shape = "not_object"
             THEN [exc |-> "AttributeError", files |-> files, cands |-> cands]
             ELSE IF path.rel = <<>>
             THEN [exc |-> "IsADirectoryError", files |-> files, cands |-> cands]
             ELSE IF e.shape = "content_not_text"
             THEN [exc |-> "TypeError", files |-> files \cup {path}, cands |-> cands]
             ELSE WriteSources(es, i + 1, dir, files \cup {path},
                      IF e.shape = "ok" /\ e.keyword
                      THEN Append(cands, <<Priority(e), path, e.length>>)
                      ELSE cands)

RECURSIVE Depth(_, _)
\* how deep below its directory a relative path ends, segment by segment;
\* -1 once a `..` segment has led above the directory
Depth(rel, depth) ==
    IF depth < 0 \/ rel = <<>> THEN depth
    ELSE IF Head(rel) = "/" THEN Depth(Tail(rel), depth)
    ELSE IF Head(rel) = ".." THEN Depth(Tail(rel), depth - 1)
    ELSE Depth(Tail(rel), depth + 1)

\* the file the path names lies in the tree of path.dir
Inside(path) == Depth(path.rel, 0) > 0

Input(kind, path) == [kind |-> kind, path |-> path]

NoPath == [dir |-> None, rel |-> <<>>]

Returned(input, multi, dir, files) ==
    [exc |-> None, processed_input |-> input, is_multi_file |-> multi,
     temp_dir |-> dir, made |-> IF multi THEN {dir} ELSE {}, files |-> files]

Raised(exc, dir, files) ==
    [exc |-> exc, processed_input |-> Input("none", NoPath), is_multi_file |-> FALSE,
     temp_dir |-> None, made |-> {dir}, files |-> files]

\* the mutant of PlainResult: the trimmed text is returned
PlainResult_Stripped == Returned(Input("stripped", NoPath), FALSE, None, {})

\* line 23: return code, False, None
PlainResult == Returned(Input("code", NoPath), FALSE, None, {})

\* dir is the directory tempfile.mkdtemp creates when the call reaches it.
\* The result lists what the call returned or raised (exc), the directory
\* it made and the files it wrote.
_extract_all_contracts(payload, dir) ==
    CASE payload.kind = "plain" -> PlainResult
      [] payload.kind = "malformed" -> Returned(Input("code", NoPath), FALSE, None, {})
      [] payload.kind = "no_sources" ->
            IF payload.embedded = "none" THEN Returned(Input("code", NoPath), FALSE, None, {})
            ELSE Returned(Input(payload.embedded, NoPath), FALSE, None, {})
      [] payload.kind = "sources_falsy" -> Returned(Input("code", NoPath), FALSE, None, {})
      [] payload.kind = "sources_not_object" -> Raised("AttributeError", dir, {})
      [] payload.kind = "sources" ->
            LET w      == WriteSources(payload.sources, 1, dir, {}, <<>>)
                sorted == SortDesc(w.cands)
                main   == IF sorted # <<>> THEN sorted[1][2]
                          ELSE JoinPath(dir, payload.sources[1].filename)
            IN  IF w.exc # None THEN Raised(w.exc, dir, w.files)
                ELSE Returned(Input("path", main), TRUE, dir, w.files)

---------------------------------------------------------------------------
(* SlitherAnalyzer.analyze *)

\* the directory tempfile.mkdtemp creates and the file NamedTemporaryFile
\* creates for the call
NewDir == "slither_contracts_1"

NewFile == [dir |-> "tmp", rel |-> <<"1.sol">>]

\* how one subprocess.run(cmd, ..., timeout=60) ends
RunOutcomes == {"completed", "FileNotFoundError", "TimeoutExpired", "OSError"}

InitAnalyze ==
    /\ pc = "start"
    /\ code \in Payloads
    /\ processed_input = Input("none", NoPath)
    /\ is_multi_file = FALSE
    /\ temp_dir = None
    /\ temp_file_path = NoPath
    /\ disk_dirs = {}
    /\ disk_files = {}
    /\ outcome = None
    /\ SimIdle
    /\ FlattenIdle
    /\ XrefIdle
    /\ CorpusIdle
    /\ CompareIdle
    /\ RiskIdle
    /\ ScanIdle

\* line 112: the call of _extract_all_contracts; an exception of the call
\* leaves analyze at once
AnalyzeExtract ==
    /\ pc = "start"
    /\ LET r == _extract_all_contracts(code, NewDir)
       IN  /\ disk_dirs' = disk_dirs \cup r.made
           /\ disk_files' = disk_files \cup r.files
           /\ processed_input' = r.processed_input
           /\ is_multi_file' = r.is_multi_file
           /\ temp_dir' = r.temp_dir
           /\ IF r.exc = None
              THEN pc' = "extracted" /\ outcome' = None
              ELSE pc' = "done" /\ outcome' = [kind |-> "raised", value |-> r.exc]
    /\ UNCHANGED <<code, temp_file_path>>
    /\ UNCHANGED <<simVars, flattenVars, xrefVars, corpusVars, compareVars, riskVars, scanVars>>

\* lines 114-137: the version is read from the main file (multi-file) or
\* from the text itself, and a single text is written to a temporary file.
\* Reading the main file can fail (readable is the environment's choice);
\* a content that is no text makes the pattern search raise TypeError.
AnalyzePrepare ==
    /\ pc = "extracted"
    /\ \E readable \in BOOLEAN :
          IF is_multi_file
          THEN IF readable /\ processed_input.path \in disk_files
               THEN /\ pc' = "prepared"
                    /\ UNCHANGED <<temp_file_path, disk_files, outcome>>
               ELSE /\ pc' = "done"
                    /\ outcome' = [kind |-> "raised", value |-> "OSError"]
                    /\ UNCHANGED <<temp_file_path, disk_files>>
          ELSE IF processed_input.kind = "not_text"
               THEN /\ pc' = "done"
                    /\ outcome' = [kind |-> "raised", value |-> "TypeError"]
                    /\ UNCHANGED <<temp_file_path, disk_files>>
               ELSE /\ pc' = "prepared"
                    /\ temp_file_path' = NewFile
                    /\ disk_files' = disk_files \cup {NewFile}
                    /\ UNCHANGED outcome
    /\ UNCHANGED <<code, processed_input, is_multi_file, temp_dir, disk_dirs>>
    /\ UNCHANGED <<simVars, flattenVars, xrefVars, corpusVars, compareVars, riskVars, scanVars>>

\* what the try statement of lines 139-183 returns or raises, given how the
\* first run and the fallback run end
RunResult(first, second) ==
    LET last == IF first = "FileNotFoundError" THEN second ELSE first
    IN  CASE last = "completed" -> [kind |-> "returned", value |-> "output"]
          [] last = "FileNotFoundError" -> [kind |-> "returned", value |-> "Slither not found."]
          [] last = "TimeoutExpired" -> [kind |-> "returned", value |-> "Slither analysis timed out."]
          [] OTHER -> [kind |-> "raised", value |-> last]

\* lines 139-189: the analyzer is run (with one fallback run when the
\* executable is not found) and the finally clause removes the temporary
\* file and the temporary directory with everything in it (a file written
\* through a `..` segment lies outside the directory and stays).
AnalyzeRun ==
    /\ pc = "prepared"
    /\ \E first \in RunOutcomes, second \in RunOutcomes :
          outcome' = RunResult(first, second)
    /\ disk_files' = {f \in disk_files :
                          f # temp_file_path /\ ~(f.dir = temp_dir /\ Inside(f))}
    /\ disk_dirs' = disk_dirs \ {temp_dir}
    /\ pc' = "done"
    /\ UNCHANGED <<code, processed_input, is_multi_file, temp_dir, temp_file_path>>
    /\ UNCHANGED <<simVars, flattenVars, xrefVars, corpusVars, compareVars, riskVars, scanVars>>

NextAnalyze == AnalyzeExtract \/ AnalyzePrepare \/ AnalyzeRun

SpecAnalyze == InitAnalyze /\ [][NextAnalyze]_vars


IsMainCandidate(e) == e.shape = "ok" /\ e.keyword

\* the payload has exactly one non-library contract file under contracts/
\* and otherwise only library contract files (at least one)
OneProjectFileAmongLibraries(p) ==
    /\ p.kind = "sources"
    /\ Len(p.sources) >= 2
    /\ \A i \in 1..Len(p.sources) : IsMainCandidate(p.sources[i])
    /\ \E i \in 1..Len(p.sources) :
          /\ ~IsLibrary(p.sources[i].filename)
          /\ IsInContracts(p.sources[i].filename)
          /\ \A j \in 1..Len(p.sources) : j # i => IsLibrary(p.sources[j].filename)

ProjectFile(p) ==
    CHOOSE e \in Range(p.sources) : ~IsLibrary(e.filename)

\* C2: with one non-library contract file under contracts/ and library
\* contract files, the non-library file is selected as main, whatever the
\* content lengths.
C2_NonLibraryFileIsMain ==
    (pc # "start" /\ OneProjectFileAmongLibraries(code) /\ is_multi_file) =>
        processed_input.path = JoinPath(temp_dir, ProjectFile(code).filename)

\* C3: _extract_all_contracts never raises: after the call there is a
\* result, whatever the payload.
C3_ExtractNeverRaises ==
    pc # "start" => processed_input.kind # "none"

\* C4: once analyze has ended on a multi-file payload, by returning or by
\* raising, the temporary directory of the payload and its files are gone.
C4_TempDirRemovedOnEveryExit ==
    (pc = "done" /\ code.kind = "sources") =>
        /\ NewDir \notin disk_dirs
        /\ \A f \in disk_files : ~(f.dir = NewDir /\ Inside(f))

ExtractReturned == pc # "start" /\ processed_input.kind # "none"

\* when is_multi_file is true the main path is a file written from the
\* sources of the payload
MainPathWasWritten ==
    (ExtractReturned /\ is_multi_file) =>
        /\ processed_input.kind = "path"
        /\ processed_input.path \in
               {JoinPath(NewDir, code.sources[i].filename) : i \in 1..Len(code.sources)}
        /\ pc = "extracted" => processed_input.path \in disk_files

\* when is_multi_file is false the result is one text and nothing on disk
SingleTextNoFiles ==
    (ExtractReturned /\ ~is_multi_file) =>
        /\ processed_input.kind \in {"code", "text"}
        /\ processed_input.path = NoPath
        /\ temp_dir = None
        /\ pc = "extracted" => disk_dirs = {} /\ disk_files = {}

\* C14: when the call returns is_multi_file true, the main path is the
\* path of a file written from the sources of the payload; when it returns
\* false, the result is exactly one text and no file set.
C14_MainPathWrittenOrSingleText ==
    MainPathWasWritten /\ SingleTextNoFiles

\* the entries of the payload that became candidates
Candidates == {e \in Range(code.sources) : IsMainCandidate(e)}

\* e comes strictly before f in the order (non-library, under contracts/,
\* content length), compared lexicographically
LexBeats(e, f) ==
    LET nl(x) == IF IsLibrary(x.filename) THEN 0 ELSE 1
        ic(x) == IF IsInContracts(x.filename) THEN 1 ELSE 0
    IN  \/ nl(e) > nl(f)
        \/ nl(e) = nl(f) /\ ic(e) > ic(f)
        \/ nl(e) = nl(f) /\ ic(e) = ic(f) /\ e.length > f.length

\* the call returned a main path and the payload has candidates
SelectedAmongCandidates ==
    pc = "extracted" /\ is_multi_file /\ Candidates # {}

\* C21: the selected main file is a candidate that no other candidate
\* beats under the lexicographic order (non-library, under contracts/,
\* content length).
C21_MainIsLexicographicMaximum ==
    SelectedAmongCandidates =>
        \E e \in Candidates :
            /\ processed_input.path = JoinPath(temp_dir, e.filename)
            /\ \A f \in Candidates : ~LexBeats(f, e)

\* position of the entry in the payload's sources
IndexOf(e) == CHOOSE i \in 1..Len(code.sources) : code.sources[i] = e

\* C24: without any candidate the first file of the sources is the main
\* file; with candidates the main file is the first, in the order of the
\* sources, of the candidates of maximal priority.
C24_FirstFileOnNoKeywordOrTie ==
    (pc = "extracted" /\ is_multi_file) =>
        IF Candidates = {}
        THEN processed_input.path = JoinPath(temp_dir, code.sources[1].filename)
        ELSE \E e \in Candidates :
                /\ processed_input.path = JoinPath(temp_dir, e.filename)
                /\ \A f \in Candidates : Priority(f) <= Priority(e)
                /\ \A f \in Candidates :
                       Priority(f) = Priority(e) => IndexOf(e) <= IndexOf(f)

\* two candidates tie on the maximal priority, the later one in a
\* contracts/ directory of the project
C24_Witness ==
    /\ pc = "extracted"
    /\ is_multi_file
    /\ Len(code.sources) = 2
    /\ Candidates = Range(code.sources)
    /\ Priority(code.sources[1]) = Priority(code.sources[2])
    /\ ~IsLibrary(code.sources[2].filename)
    /\ processed_input.path = JoinPath(temp_dir, code.sources[1].filename)

\* no file holds a keyword and the first of two files is the main file
C24_WitnessNoKeyword ==
    /\ pc = "extracted"
    /\ is_multi_file
    /\ Len(code.sources) = 2
    /\ Candidates = {}
    /\ processed_input.path = JoinPath(temp_dir, code.sources[1].filename)

\* C26: every file written for a multi-file payload, and the main path
\* returned, lies inside the temporary directory made for the payload.
C26_WritesStayInTempDir ==
    (pc = "extracted" /\ is_multi_file) =>
        /\ \A f \in disk_files : f.dir = temp_dir /\ Inside(f)
        /\ processed_input.path.dir = temp_dir
        /\ Inside(processed_input.path)

---------------------------------------------------------------------------
(* convert_json_contracts.extract_flatten_from_json                        *)
(*                                                                         *)
(* A text is a sequence of lines (what split('\n') gives, so the empty     *)
(* text is the one empty line) and a line a sequence of pieces.  The loop  *)
(* over the files of "sources" is modelled one iteration at a time, each   *)
(* iteration drawing the next entry of the payload.                        *)

MaxFlatFiles == 2

MaxLines == 2

LicenseMIT == "// SPDX-License-Identifier: MIT"

LicenseGPL == "// SPDX-License-Identifier: GPL-3.0"

\* pieces containing the text SPDX-License-Identifier
LicensePieces == {LicenseMIT, LicenseGPL}

\* pieces starting with the text `pragma solidity`
PragmaPieces == {"pragma solidity ^0.8.0;", "pragma solidity >=0.7.0;"}

\* pieces starting with the text `import `
ImportPieces == {"import './B.sol';"}

Blank == {" "}

FlatLines == {
    <<LicenseMIT>>,
    <<" ", LicenseGPL, " ">>,
    <<"pragma solidity ^0.8.0;">>,
    <<" ", "pragma solidity >=0.7.0;">>,
    <<"pragma solidity ^0.8.0;", " ", LicenseMIT>>,
    <<"import './B.sol';">>,
    <<"contract A {}">>,
    <<" ">>,
    <<>> }

FlatContents == SeqsUpTo(FlatLines, MaxLines) \ {<<>>}

FlatNames == {"A.sol", "B.sol"}

EmptyText == << <<>> >>

FlatEntries ==
    [shape : {"ok"}, content : FlatContents]
    \cup [shape : {"no_content", "not_object", "content_not_text"}, content : {EmptyText}]

\* what open / json.loads / data['sources'] make of the file
FlatPayloadKinds == {"malformed", "no_sources", "sources_not_object", "sources"}

RECURSIVE StripLeft(_)
StripLeft(line) ==
    IF line # <<>> /\ Head(line) \in Blank THEN StripLeft(Tail(line)) ELSE line

RECURSIVE StripRight(_)
StripRight(line) ==
    IF line # <<>> /\ line[Len(line)] \in Blank
    THEN StripRight(SubSeq(line, 1, Len(line) - 1)) ELSE line

\* line.strip()
Strip(line) == StripRight(StripLeft(line))

HasLicenseId(stripped) == \E i \in 1..Len(stripped) : stripped[i] \in LicensePieces

StartsWithPragma(stripped) == stripped # <<>> /\ Head(stripped) \in PragmaPieces

StartsWithImport(stripped) == stripped # <<>> /\ Head(stripped) \in ImportPieces

NoPragma == [found |-> FALSE, line |-> <<>>]

RECURSIVE ProcessLines(_, _, _)
\* The loop over the lines of one file (lines 54-76), run on the lines from
\* i on; acc holds processed_lines, seen_licenses and main_pragma.
ProcessLines(lines, i, acc) ==
    IF i > Len(lines) THEN acc
    ELSE LET line     == lines[i]
             stripped == Strip(line)
         IN  IF HasLicenseId(stripped)
             THEN ProcessLines(lines, i + 1,
                      [acc EXCEPT !.seen_licenses = @ \cup {stripped}])
             ELSE IF StartsWithPragma(stripped) /\ ~acc.main_pragma.found
             THEN ProcessLines(lines, i + 1,
                      [acc EXCEPT !.main_pragma = [found |-> TRUE, line |-> line]])
             ELSE IF StartsWithPragma(stripped) \/ StartsWithImport(stripped)
             THEN ProcessLines(lines, i + 1, acc)
             ELSE ProcessLines(lines, i + 1,
                      [acc EXCEPT !.processed_lines = Append(@, line)])

RECURSIVE SourceSections(_)
\* lines 112-115: every file's provenance comment, content and empty line
SourceSections(sources) ==
    IF sources = <<>> THEN <<>>
    ELSE << <<"// File: ", Head(sources).filename>> >>
         \o Head(sources).content
         \o << <<>> >>
         \o SourceSections(Tail(sources))

\* the mutant of BuildFlattened: a seen license is kept when several differ
BuildFlattened_KeepsSeen(sources, licenses, pragma) ==
    << (IF licenses # {} THEN CHOOSE l \in licenses : TRUE
        ELSE <<LicenseMIT>>),
       <<>>,
       (IF pragma.found THEN pragma.line ELSE <<"pragma solidity ^0.8.0;">>),
       <<>>,
       <<"// File flattened from Etherscan Standard JSON Input">>,
       <<"// Multiple source files have been concatenated">>,
       <<>> >>
    \o SourceSections(sources)

\* lines 88-117: the flattened text, as the lines '\n'.join puts together
BuildFlattened(sources, licenses, pragma) ==
    << (IF Cardinality(licenses) = 1 THEN CHOOSE l \in licenses : TRUE
        ELSE <<LicenseMIT>>),
       <<>>,
       (IF pragma.found THEN pragma.line ELSE <<"pragma solidity ^0.8.0;">>),
       <<>>,
       <<"// File flattened from Etherscan Standard JSON Input">>,
       <<"// Multiple source files have been concatenated">>,
       <<>> >>
    \o SourceSections(sources)

NoText == [ok |-> FALSE, text |-> <<>>]

\* lines 84-117: None when no file was kept, else the flattened text
Flattened(sources, licenses, pragma) ==
    IF sources = <<>> THEN NoText
    ELSE [ok |-> TRUE, text |-> BuildFlattened(sources, licenses, pragma)]

InitFlatten ==
    /\ pc = "start"
    /\ all_sources = <<>>
    /\ seen_licenses = {}
    /\ main_pragma = NoPragma
    /\ seen_files = {}
    /\ flattened = NoText
    /\ license_lines = {}
    /\ SimIdle
    /\ SlitherIdle
    /\ XrefIdle
    /\ CorpusIdle
    /\ CompareIdle
    /\ RiskIdle
    /\ ScanIdle

\* lines 28-38: the file is read and parsed; anything but an object with
\* "sources" ends the call with None (directly, or through the except
\* clause of line 119)
FlattenOpen ==
    /\ pc = "start"
    /\ \E kind \in FlatPayloadKinds :
          pc' = IF kind = "sources" THEN "loop" ELSE "done"
    /\ UNCHANGED <<all_sources, seen_licenses, main_pragma, seen_files, flattened,
                   license_lines>>
    /\ UNCHANGED <<simVars, slitherVars, xrefVars, corpusVars, compareVars, riskVars, scanVars>>

\* lines 45-82: one iteration of the loop over data['sources'].items(),
\* for the entry e under the key filename.  An entry that is no object, or
\* whose content is not text, raises.
IterateFile(sources, licenses, pragma, filename, e) ==
    IF e.shape \in {"not_object", "content_not_text"}
    THEN [raised |-> TRUE, all_sources |-> sources,
          seen_licenses |-> licenses, main_pragma |-> pragma]
    ELSE IF e.content = EmptyText
    THEN [raised |-> FALSE, all_sources |-> sources,
          seen_licenses |-> licenses, main_pragma |-> pragma]
    ELSE LET acc == ProcessLines(e.content, 1,
                        [processed_lines |-> <<>>,
                         seen_licenses |-> licenses,
                         main_pragma |-> pragma])
         IN  [raised |-> FALSE,
              all_sources |->
                  IF acc.processed_lines # <<>>
                  THEN Append(sources, [filename |-> filename,
                                        content |-> acc.processed_lines])
                  ELSE sources,
              seen_licenses |-> acc.seen_licenses,
              main_pragma |-> acc.main_pragma]

\* the lines of an entry's content that hold a license identifier
LicenseLinesOf(e) ==
    IF e.shape # "ok" THEN {}
    ELSE {e.content[i] : i \in {n \in 1..Len(e.content) :
                                  \E m \in 1..Len(e.content[n]) :
                                      e.content[n][m] \in LicensePieces}}

\* One iteration of the loop; an exception goes to the except clause of
\* line 119, which returns None.
FlattenFile ==
    /\ pc = "loop"
    /\ Cardinality(seen_files) < MaxFlatFiles
    /\ \E filename \in FlatNames \ seen_files, e \in FlatEntries :
          LET r == IterateFile(all_sources, seen_licenses, main_pragma, filename, e)
          IN  /\ seen_files' = seen_files \cup {filename}
              /\ all_sources' = r.all_sources
              /\ seen_licenses' = r.seen_licenses
              /\ main_pragma' = r.main_pragma
              /\ pc' = IF r.raised THEN "done" ELSE "loop"
              /\ license_lines' = license_lines \cup LicenseLinesOf(e)
    /\ UNCHANGED flattened
    /\ UNCHANGED <<simVars, slitherVars, xrefVars, corpusVars, compareVars, riskVars, scanVars>>

\* lines 84-117: after the last file, None when no file was kept, else the
\* flattened text
FlattenBuild ==
    /\ pc = "loop"
    /\ flattened' = Flattened(all_sources, seen_licenses, main_pragma)
    /\ pc' = "done"
    /\ UNCHANGED <<all_sources, seen_licenses, main_pragma, seen_files, license_lines>>
    /\ UNCHANGED <<simVars, slitherVars, xrefVars, corpusVars, compareVars, riskVars, scanVars>>

NextFlatten == FlattenOpen \/ FlattenFile \/ FlattenBuild

SpecFlatten == InitFlatten /\ [][NextFlatten]_vars

\* a text with a character that is not white space
HasVisibleText(content) ==
    \E i \in 1..Len(content) : Strip(content[i]) # <<>>

\* C5: the call returns a non-empty text when some file keeps non-empty
\* content after its license, pragma and import lines are stripped, and
\* None otherwise (every file's remaining content empty or blank).
C5_TextIffContentRemains ==
    pc = "done" =>
        IF \E i \in 1..Len(all_sources) : HasVisibleText(all_sources[i].content)
        THEN flattened.ok /\ flattened.text # EmptyText
        ELSE ~flattened.ok

\* a line containing SPDX-License-Identifier
IsLicenseLine(line) == \E m \in 1..Len(line) : line[m] \in LicensePieces

\* a line starting with pragma solidity, leading white space apart
IsPragmaLine(line) == StartsWithPragma(StripLeft(line))

LicenseLineCount(text) == Cardinality({n \in 1..Len(text) : IsLicenseLine(text[n])})

PragmaLineCount(text) == Cardinality({n \in 1..Len(text) : IsPragmaLine(text[n])})

\* C15: a flattened text has exactly one license line and exactly one
\* version pragma line, however many the input files hold.
C15_OneLicenseOnePragma ==
    (pc = "done" /\ flattened.ok) =>
        /\ LicenseLineCount(flattened.text) = 1
        /\ PragmaLineCount(flattened.text) = 1

\* the distinct license lines of the input, white space at the ends apart
DistinctLicenses == {Strip(l) : l \in license_lines}

\* C16: when two different license lines occur in the file set the license
\* line of the output is the default MIT line; when exactly one distinct
\* license line occurs, the output carries that line.
C16_DefaultLicenseWhenSeveral ==
    (pc = "done" /\ flattened.ok) =>
        /\ Cardinality(DistinctLicenses) >= 2 => flattened.text[1] = <<LicenseMIT>>
        /\ Cardinality(DistinctLicenses) = 1 => flattened.text[1] \in DistinctLicenses

C16_Witness ==
    /\ pc = "done"
    /\ flattened.ok
    /\ Cardinality(DistinctLicenses) >= 2
    /\ <<LicenseMIT>> \notin DistinctLicenses

C16_WitnessSingle ==
    /\ pc = "done"
    /\ flattened.ok
    /\ DistinctLicenses = {<<LicenseGPL>>}
    /\ Cardinality(license_lines) = 1

---------------------------------------------------------------------------
(* analyze_clone_vulnerabilities.py: cross-reference of clone pairs with   *)
(* the vulnerability report                                                *)

MaxPairs == 2

MaxIssues == 1

Addresses == {"0xA", "0xB", "0xC"}

\* the pairs of a similarity report, in the order of the report
PairKeys == << <<"0xA", "0xB">>, <<"0xA", "0xC">>, <<"0xB", "0xC">> >>

\* threshold=0.95, the default of find_high_risk_clones
Threshold == Rat(95, 100)

\* the scores of a record: below the threshold, on it by the full score,
\* above it by the partial score
Scores == {
    [full_similarity |-> Rat(9, 10), partial_similarity |-> Zero],
    [full_similarity |-> Rat(95, 100), partial_similarity |-> Rat(9, 10)],
    [full_similarity |-> Rat(9, 10), partial_similarity |-> One] }

Min(a, b) == IF a <= b THEN a ELSE b

\* similarity_report.json: the records in the order of the file
SimilarityMatrices ==
    UNION { { [i \in 1..n |-> [contract1 |-> PairKeys[i][1],
                               contract2 |-> PairKeys[i][2],
                               full_similarity |-> f[i].full_similarity,
                               partial_similarity |-> f[i].partial_similarity]]
              : f \in [1..n -> Scores] }
            : n \in 0..Min(MaxPairs, Len(PairKeys)) }

Issues == {
    [type |-> "reentrancy-eth", severity |-> "High"],
    [type |-> "reentrancy-eth", severity |-> "Low"],
    [type |-> "unused-return", severity |-> "Medium"] }

IssueLists == SeqsUpTo(Issues, MaxIssues)

SeverityCount(issues, sev) ==
    Cardinality({i \in 1..Len(issues) : issues[i].severity = sev})

\* an entry of vulnerability_report.json as the pipelines write it
VulnRecord(present, success, issues) ==
    [present |-> present, success |-> success, error |-> "Analysis failed",
     issue_count |-> Len(issues),
     severity_breakdown |-> [High |-> SeverityCount(issues, "High"),
                             Medium |-> SeverityCount(issues, "Medium"),
                             Low |-> SeverityCount(issues, "Low")],
     issues |-> issues]

\* an address is absent from the report, has a failed analysis, or has a
\* successful one with its findings
VulnRecords ==
    {VulnRecord(FALSE, FALSE, <<>>), VulnRecord(TRUE, FALSE, <<>>),
     VulnRecord(TRUE, FALSE, <<[type |-> "reentrancy-eth", severity |-> "High"]>>)}
    \cup {VulnRecord(TRUE, TRUE, issues) : issues \in IssueLists}

VulnerabilitySets == [Addresses -> VulnRecords]

RatMax(a, b) == IF RatLeq(b, a) THEN a ELSE b

\* lines 24-35: the records reaching the threshold, in the order of the file
RECURSIVE HighRisk(_, _, _)
HighRisk(sim, i, threshold) ==
    IF i > Len(sim) THEN <<>>
    ELSE LET data == sim[i]
             full_sim == data.full_similarity
             partial_sim == data.partial_similarity
             rest == HighRisk(sim, i + 1, threshold)
         IN  IF RatLeq(threshold, full_sim) \/ RatLeq(threshold, partial_sim)
             THEN <<[contract1 |-> data.contract1,
                     contract2 |-> data.contract2,
                     full_similarity |-> full_sim,
                     partial_similarity |-> partial_sim,
                     max_similarity |-> RatMax(full_sim, partial_sim)]>> \o rest
             ELSE rest

\* list.sort(key=max_similarity, reverse=True): stable, highest first
RECURSIVE InsertByMax(_, _)
InsertByMax(sorted, x) ==
    IF sorted = <<>> THEN <<x>>
    ELSE IF RatLeq(x.max_similarity, Head(sorted).max_similarity)
         THEN <<Head(sorted)>> \o InsertByMax(Tail(sorted), x)
         ELSE <<x>> \o sorted

RECURSIVE SortByMax(_, _)
SortByMax(list, i) ==
    IF i = 0 THEN <<>> ELSE InsertByMax(SortByMax(list, i - 1), list[i])

\* the mutant of find_high_risk_clones: the list is left in file order
find_high_risk_clones_Unsorted(sim, threshold) == HighRisk(sim, 1, threshold)

find_high_risk_clones(sim, threshold) ==
    LET high_risk == HighRisk(sim, 1, threshold)
    IN  SortByMax(high_risk, Len(high_risk))

\* the mutant of get_vulnerability_summary: a failed analysis is summarised
\* as a successful one
get_vulnerability_summary_IgnoresFailure(address, vuln_data) ==
    LET data == vuln_data[address]
    IN  IF ~data.present
        THEN [success |-> FALSE, error |-> "Not analyzed",
              total |-> 0, high |-> 0, medium |-> 0, low |-> 0, issues |-> <<>>]
        ELSE [success |-> TRUE, error |-> None,
              total |-> data.issue_count,
              high |-> data.severity_breakdown.High,
              medium |-> data.severity_breakdown.Medium,
              low |-> data.severity_breakdown.Low,
              issues |-> data.issues]

\* lines 43-76; a summary of a failed or missing analysis carries no issues
get_vulnerability_summary(address, vuln_data) ==
    LET data == vuln_data[address]
    IN  IF ~data.present
        THEN [success |-> FALSE, error |-> "Not analyzed",
              total |-> 0, high |-> 0, medium |-> 0, low |-> 0, issues |-> <<>>]
        ELSE IF ~data.success
        THEN [success |-> FALSE, error |-> data.error,
              total |-> 0, high |-> 0, medium |-> 0, low |-> 0, issues |-> <<>>]
        ELSE [success |-> TRUE, error |-> None,
              total |-> data.issue_count,
              high |-> data.severity_breakdown.High,
              medium |-> data.severity_breakdown.Medium,
              low |-> data.severity_breakdown.Low,
              issues |-> data.issues]

\* severity_order.get(severity, 99)
SeverityRank(sev) ==
    CASE sev = "High" -> 0
      [] sev = "Medium" -> 1
      [] sev = "Low" -> 2
      [] sev = "Informational" -> 3
      [] sev = "Optimization" -> 4
      [] OTHER -> 99

\* list.sort(key=rank): stable, lowest rank first
RECURSIVE InsertByRank(_, _)
InsertByRank(sorted, x) ==
    IF sorted = <<>> THEN <<x>>
    ELSE IF SeverityRank(Head(sorted).severity) <= SeverityRank(x.severity)
         THEN <<Head(sorted)>> \o InsertByRank(Tail(sorted), x)
         ELSE <<x>> \o sorted

RECURSIVE SortByRank(_, _)
SortByRank(list, i) ==
    IF i = 0 THEN <<>> ELSE InsertByRank(SortByRank(list, i - 1), list[i])

\* the mutant of FirstSeverity: the last issue of the type gives the severity
FirstSeverity_Last(issues, vuln_type) ==
    LET last == CHOOSE i \in 1..Len(issues) :
                    /\ issues[i].type = vuln_type
                    /\ \A j \in (i + 1)..Len(issues) : issues[j].type # vuln_type
    IN  issues[last].severity

\* the severity of the first issue of the type in the list
FirstSeverity(issues, vuln_type) ==
    LET first == CHOOSE i \in 1..Len(issues) :
                     /\ issues[i].type = vuln_type
                     /\ \A j \in 1..(i - 1) : issues[j].type # vuln_type
    IN  issues[first].severity

\* the orders in which a set can be iterated over
IterationOrders(S) ==
    {s \in [1..Cardinality(S) -> S] : \A x \in S : \E i \in DOMAIN s : s[i] = x}

\* lines 79-110: the lists the call can return; the shared types are a set,
\* and the order in which the loop of line 93 meets them is not fixed
compare_vulnerabilities(issues1, issues2) ==
    IF issues1 = <<>> \/ issues2 = <<>> THEN {<<>>}
    ELSE LET types1 == {issues1[i].type : i \in 1..Len(issues1)}
             types2 == {issues2[i].type : i \in 1..Len(issues2)}
             shared == types1 \cap types2
         IN  { LET shared_vulns ==
                       [i \in 1..Len(order) |->
                           [type |-> order[i],
                            severity |-> FirstSeverity(issues1, order[i])]]
               IN  SortByRank(shared_vulns, Len(shared_vulns))
               : order \in IterationOrders(shared) }

NoFile == [written |-> FALSE, content |-> <<>>]

InitXref ==
    /\ pc = "start"
    /\ similarity \in SimilarityMatrices
    /\ vulnerabilities \in VulnerabilitySets
    /\ high_risk_pairs = <<>>
    /\ idx = 0
    /\ results = <<>>
    /\ pairs_with_shared_vulns = 0
    /\ pairs_both_analyzed = 0
    /\ crossref_json = NoFile
    /\ crossref_md = NoFile
    /\ crossref_outcome = None
    /\ SimIdle
    /\ SlitherIdle
    /\ FlattenIdle
    /\ CorpusIdle
    /\ CompareIdle
    /\ RiskIdle
    /\ ScanIdle

\* lines 122-141: the reports are loaded, the high-risk pairs found
XrefStart ==
    /\ pc = "start"
    /\ high_risk_pairs' = find_high_risk_clones(similarity, Threshold)
    /\ idx' = 0
    /\ results' = <<>>
    /\ pairs_with_shared_vulns' = 0
    /\ pairs_both_analyzed' = 0
    /\ pc' = "loop"
    /\ UNCHANGED <<similarity, vulnerabilities, crossref_json, crossref_md,
                   crossref_outcome>>
    /\ UNCHANGED <<simVars, slitherVars, flattenVars, corpusVars, compareVars, riskVars, scanVars>>

\* the mutant of Result: shared_count counts the findings of both contracts
Result_CountsFindings(number, pair, vuln1, vuln2, shared) ==
    [pair_number |-> number,
     contract1 |-> pair.contract1,
     contract2 |-> pair.contract2,
     similarity |-> pair.max_similarity,
     contract1_vulns |-> [total |-> vuln1.total, high |-> vuln1.high,
                          medium |-> vuln1.medium, low |-> vuln1.low],
     contract2_vulns |-> [total |-> vuln2.total, high |-> vuln2.high,
                          medium |-> vuln2.medium, low |-> vuln2.low],
     shared_vulnerabilities |-> shared,
     shared_count |-> vuln1.total + vuln2.total]

\* lines 164-183
Result(number, pair, vuln1, vuln2, shared) ==
    [pair_number |-> number,
     contract1 |-> pair.contract1,
     contract2 |-> pair.contract2,
     similarity |-> pair.max_similarity,
     contract1_vulns |-> [total |-> vuln1.total, high |-> vuln1.high,
                          medium |-> vuln1.medium, low |-> vuln1.low],
     contract2_vulns |-> [total |-> vuln2.total, high |-> vuln2.high,
                          medium |-> vuln2.medium, low |-> vuln2.low],
     shared_vulnerabilities |-> shared,
     shared_count |-> Len(shared)]

\* lines 143-202: one iteration of the loop over the high-risk pairs
XrefPair ==
    /\ pc = "loop"
    /\ idx < Len(high_risk_pairs)
    /\ LET pair == high_risk_pairs[idx + 1]
           vuln1 == get_vulnerability_summary(pair.contract1, vulnerabilities)
           vuln2 == get_vulnerability_summary(pair.contract2, vulnerabilities)
           both_analyzed == vuln1.success /\ vuln2.success
       IN  /\ idx' = idx + 1
           /\ IF both_analyzed
              THEN \E shared \in compare_vulnerabilities(vuln1.issues, vuln2.issues) :
                      /\ pairs_both_analyzed' = pairs_both_analyzed + 1
                      /\ IF shared # <<>>
                         THEN /\ pairs_with_shared_vulns' = pairs_with_shared_vulns + 1
                              /\ results' = Append(results,
                                     Result(idx + 1, pair, vuln1, vuln2, shared))
                         ELSE UNCHANGED <<pairs_with_shared_vulns, results>>
              ELSE UNCHANGED <<pairs_both_analyzed, pairs_with_shared_vulns, results>>
    /\ pc' = "loop"
    /\ UNCHANGED <<similarity, vulnerabilities, high_risk_pairs, crossref_json,
                   crossref_md, crossref_outcome>>
    /\ UNCHANGED <<simVars, slitherVars, flattenVars, corpusVars, compareVars, riskVars, scanVars>>

\* lines 204-220: the results are written, the summary printed
XrefSave ==
    /\ pc = "loop"
    /\ idx = Len(high_risk_pairs)
    /\ crossref_json' = [written |-> TRUE, content |-> results]
    /\ pc' = "report"
    /\ UNCHANGED <<similarity, vulnerabilities, high_risk_pairs, idx, results,
                   pairs_with_shared_vulns, pairs_both_analyzed, crossref_md,
                   crossref_outcome>>
    /\ UNCHANGED <<simVars, slitherVars, flattenVars, corpusVars, compareVars, riskVars, scanVars>>

\* lines 229-275: the text of the report, one section per result
ReportSections(list) == [i \in 1..Len(list) |-> list[i].pair_number]

\* lines 223, 226-277: line 240 divides by the number of high-risk pairs
create_markdown_report ==
    /\ pc = "report"
    /\ IF Len(high_risk_pairs) = 0
       THEN /\ crossref_outcome' = "ZeroDivisionError"
            /\ UNCHANGED crossref_md
       ELSE /\ crossref_md' = [written |-> TRUE, content |-> ReportSections(results)]
            /\ crossref_outcome' = "completed"
    /\ pc' = "done"
    /\ UNCHANGED <<similarity, vulnerabilities, high_risk_pairs, idx, results,
                   pairs_with_shared_vulns, pairs_both_analyzed, crossref_json>>
    /\ UNCHANGED <<simVars, slitherVars, flattenVars, corpusVars, compareVars, riskVars, scanVars>>

NextXref == XrefStart \/ XrefPair \/ XrefSave \/ create_markdown_report

SpecXref == InitXref /\ [][NextXref]_vars

\* the record reaches the threshold by the larger of its two scores
ReachesThreshold(data) ==
    RatLeq(Threshold, RatMax(data.full_similarity, data.partial_similarity))

\* the entry of the high-risk list is made from the record
MadeFrom(pair, data) ==
    /\ pair.contract1 = data.contract1
    /\ pair.contract2 = data.contract2
    /\ pair.full_similarity = data.full_similarity
    /\ pair.partial_similarity = data.partial_similarity
    /\ pair.max_similarity = RatMax(data.full_similarity, data.partial_similarity)

\* C19: the high-risk list holds exactly the records whose larger score is
\* on or above the threshold (0.95 included), each once, in non-increasing
\* order of that score.
C19_HighRiskExactAndOrdered ==
    pc \in {"loop", "report", "done"} =>
        /\ \A n \in 1..Len(similarity) :
              ReachesThreshold(similarity[n]) <=>
                  \E m \in 1..Len(high_risk_pairs) :
                      MadeFrom(high_risk_pairs[m], similarity[n])
        /\ \A m \in 1..Len(high_risk_pairs) :
              \E n \in 1..Len(similarity) : MadeFrom(high_risk_pairs[m], similarity[n])
        /\ Len(high_risk_pairs) =
              Cardinality({n \in 1..Len(similarity) : ReachesThreshold(similarity[n])})
        /\ \A m \in 1..(Len(high_risk_pairs) - 1) :
              RatLeq(high_risk_pairs[m + 1].max_similarity,
                     high_risk_pairs[m].max_similarity)

\* a record on the threshold is listed after a later record above it
C19_Witness ==
    /\ pc = "loop"
    /\ Len(high_risk_pairs) = 2
    /\ similarity[1].full_similarity = Threshold
    /\ high_risk_pairs[2].max_similarity = Threshold
    /\ high_risk_pairs[1].max_similarity = One

\* the similarity record of the pair, as similarity_report stores the
\* score, handed to find_high_risk_clones with the default threshold
PassesHighRiskTest ==
    find_high_risk_clones(
        <<[contract1 |-> "0xA", contract2 |-> "0xB",
           full_similarity |-> full, partial_similarity |-> Zero]>>,
        Threshold) # <<>>

\* the two samples are equal
EqualSamples == Prefix(code1, SampleChars) = Prefix(code2, SampleChars)

\* C27 as stated: a large pair of differing sources with equal samples
\* scores exactly 0.95 and passes the default high-risk test.
C27_EqualSamplesScoreCap ==
    (pc = "done" /\ LargePair /\ EqualSamples) =>
        full = Rat(CapNum, CapDen) /\ PassesHighRiskTest

\* C27, amended: a large pair of differing sources with equal samples
\* passes the default high-risk test, with the score exactly 0.95 when the
\* digests differ and 1.0 when they are equal.
C27_EqualSamplesPassHighRisk ==
    (pc = "done" /\ LargePair /\ EqualSamples) =>
        /\ PassesHighRiskTest
        /\ full = IF Md5(code1) = Md5(code2) THEN One ELSE Rat(CapNum, CapDen)

\* the remainders differ in every character and the score is 0.95
C27_Witness ==
    /\ pc = "done"
    /\ LargePair
    /\ EqualSamples
    /\ Len(code1) = Len(code2)
    /\ \A i \in (SampleChars + 1)..Len(code1) : code1[i] # code2[i]
    /\ full = Rat(CapNum, CapDen)
    /\ PassesHighRiskTest

\* C30: at every step of the cross-reference loop the pairs with shared
\* vulnerabilities are at most the pairs with both contracts analyzed,
\* these at most the pairs processed, the results are as many as the pairs
\* with shared vulnerabilities, and every result counts its own non-empty
\* list of shared vulnerabilities.
C30_LoopCountersOrdered ==
    pc \in {"loop", "report", "done"} =>
        /\ pairs_with_shared_vulns <= pairs_both_analyzed
        /\ pairs_both_analyzed <= idx
        /\ idx <= Len(high_risk_pairs)
        /\ Len(results) = pairs_with_shared_vulns
        /\ \A n \in 1..Len(results) :
              /\ results[n].shared_vulnerabilities # <<>>
              /\ results[n].shared_count = Len(results[n].shared_vulnerabilities)

\* after two pairs: both analyzed in one of them only, and that one with
\* a shared vulnerability
C30_Witness ==
    /\ pc = "loop"
    /\ idx = 2
    /\ pairs_both_analyzed = 1
    /\ pairs_with_shared_vulns = 1
    /\ Len(results) = 1
    /\ results[1].shared_count = 1

\* a state of the loop in which the three counters differ pairwise
C30_WitnessStrict ==
    /\ pc = "loop"
    /\ pairs_with_shared_vulns < pairs_both_analyzed
    /\ pairs_both_analyzed < idx

\* C6: every cross-reference run ends without raising, with its result
\* list written to the results file, whatever the similarity matrix and
\* the vulnerability set (no pair on the threshold, contracts missing from
\* the vulnerability set, no pair with both contracts analyzed).
C6_RunCompletesAndPersists ==
    pc = "done" =>
        /\ crossref_outcome = "completed"
        /\ crossref_json = [written |-> TRUE, content |-> results]

---------------------------------------------------------------------------
(* nft_contract_analyzer.py, run_complete_analysis.py: corpus comparison   *)

MaxContracts == 3

CorpusAddresses == {"0xA1", "0xB2", "0xC3", "0xD4"}

\* the source codes of the corpus: short texts, a text above the large-file
\* limit, and texts declaring functions
CorpusCodes ==
    { <<>>,
      <<"a", "a", "b", "a">>,
      <<"b", "a", "a", "a">>,
      <<"a", "b", "a", "b", "a", "b", "a">>,
      <<"f","u","n","c","t","i","o","n"," ","f","(">>,
      <<"f","u","n","c","t","i","o","n"," ","f","(",
        "f","u","n","c","t","i","o","n"," ","_","x","(","a">> }

\* self.contracts: the fetched contracts, in the order of insertion; the
\* keys of a dict are distinct
Corpora ==
    {c \in SeqsUpTo([addr : CorpusAddresses, code : CorpusCodes], MaxContracts) :
        \A m, n \in 1..Len(c) : m # n => c[m].addr # c[n].addr}

\* the mutant of InnerStart: the inner loop starts on the outer index
InnerStart_Self(outer) == outer

\* range(i+1, len(addresses)): where the inner loop starts
InnerStart(outer) == outer + 1

\* the index pairs the two loops go through, in order, from (outer, inner) on
RECURSIVE LoopPairs(_, _, _)
LoopPairs(outer, inner, n) ==
    IF outer > n THEN <<>>
    ELSE IF inner > n THEN LoopPairs(outer + 1, InnerStart(outer + 1), n)
    ELSE << <<outer, inner>> >> \o LoopPairs(outer, inner + 1, n)

\* f"{a1}_{a2}"
PairKey(a1, a2) == a1 \o "_" \o a2

\* report[key] = value
DictSet(dict, key, value) ==
    [k \in DOMAIN dict \cup {key} |-> IF k = key THEN value ELSE dict[k]]

EmptyDict == [k \in {} |-> k]

InitCorpus ==
    /\ pc = "start"
    /\ contracts \in Corpora
    /\ report = EmptyDict
    /\ pair_num = 0
    /\ SimIdle
    /\ SlitherIdle
    /\ FlattenIdle
    /\ XrefIdle
    /\ CompareIdle
    /\ RiskIdle
    /\ ScanIdle

\* lines 30-34
CorpusStart ==
    /\ pc = "start"
    /\ report' = EmptyDict
    /\ pair_num' = 0
    /\ pc' = "loop"
    /\ UNCHANGED contracts
    /\ UNCHANGED <<simVars, slitherVars, flattenVars, xrefVars, compareVars, riskVars, scanVars>>

\* lines 35-45: one iteration of the inner loop
ComparePair ==
    /\ pc = "loop"
    /\ LET pairs == LoopPairs(1, InnerStart(1), Len(contracts))
       IN  /\ pair_num < Len(pairs)
           /\ LET a1 == contracts[pairs[pair_num + 1][1]].addr
                  a2 == contracts[pairs[pair_num + 1][2]].addr
                  c1 == contracts[pairs[pair_num + 1][1]].code
                  c2 == contracts[pairs[pair_num + 1][2]].code
              IN  report' = DictSet(report, PairKey(a1, a2),
                                [contract1 |-> a1, contract2 |-> a2,
                                 full_similarity |-> full_similarity(c1, c2),
                                 partial_similarity |-> partial_similarity(c1, c2)])
    /\ pair_num' = pair_num + 1
    /\ pc' = "loop"
    /\ UNCHANGED contracts
    /\ UNCHANGED <<simVars, slitherVars, flattenVars, xrefVars, compareVars, riskVars, scanVars>>

\* line 46
CorpusReturn ==
    /\ pc = "loop"
    /\ pair_num = Len(LoopPairs(1, InnerStart(1), Len(contracts)))
    /\ pc' = "done"
    /\ UNCHANGED <<contracts, report, pair_num>>
    /\ UNCHANGED <<simVars, slitherVars, flattenVars, xrefVars, compareVars, riskVars, scanVars>>

NextCorpus == CorpusStart \/ ComparePair \/ CorpusReturn

SpecCorpus == InitCorpus /\ [][NextCorpus]_vars

CorpusAddrs == {contracts[m].addr : m \in 1..Len(contracts)}

\* C11: a finished corpus comparison over n contracts holds n(n-1)/2
\* records: one record, under its own key, for every unordered pair of
\* distinct addresses, and no record pairing an address with itself.
C11_OneRecordPerPair ==
    pc = "done" =>
        /\ 2 * Cardinality(DOMAIN report) = Len(contracts) * (Len(contracts) - 1)
        /\ \A k \in DOMAIN report :
              /\ report[k].contract1 # report[k].contract2
              /\ {report[k].contract1, report[k].contract2} \subseteq CorpusAddrs
        /\ \A a, b \in CorpusAddrs :
              a # b =>
                 Cardinality({k \in DOMAIN report :
                     {report[k].contract1, report[k].contract2} = {a, b}}) = 1

C11_Witness ==
    /\ pc = "done"
    /\ Len(contracts) = MaxContracts
    /\ 2 * Cardinality(DOMAIN report) = MaxContracts * (MaxContracts - 1)

\* a score within [0, 1]
InUnit(r) == RatLeq(Zero, r) /\ RatLeq(r, One)

\* C12: every record of the corpus comparison has its full_similarity and
\* its partial_similarity within [0, 1].
C12_ScoresInUnitInterval ==
    \A k \in DOMAIN report :
        /\ InUnit(report[k].full_similarity)
        /\ InUnit(report[k].partial_similarity)

C12_Witness ==
    /\ pc = "done"
    /\ \E k \in DOMAIN report :
          /\ report[k].full_similarity \notin {Zero, One}
          /\ report[k].partial_similarity \notin {Zero, One}

---------------------------------------------------------------------------
(* analyze_clone_vulnerabilities.compare_vulnerabilities on its own        *)

MaxFindings == 2

\* findings of four categories; the first two occur with two severities,
\* the last has the label given to a detector without impact (Unknown)
Findings == {
    [type |-> "reentrancy-eth", severity |-> "High"],
    [type |-> "reentrancy-eth", severity |-> "Low"],
    [type |-> "unused-return", severity |-> "Low"],
    [type |-> "unused-return", severity |-> "High"],
    [type |-> "timestamp", severity |-> "Medium"],
    [type |-> "assembly", severity |-> "Unknown"] }

FindingLists == SeqsUpTo(Findings, MaxFindings)

InitCompare ==
    /\ pc = "ready"
    /\ vuln1_issues \in FindingLists
    /\ vuln2_issues \in FindingLists
    /\ shared_list = <<>>
    /\ SimIdle
    /\ SlitherIdle
    /\ FlattenIdle
    /\ XrefIdle
    /\ CorpusIdle
    /\ RiskIdle
    /\ ScanIdle

\* line 159: the call of compare_vulnerabilities on the two finding lists
CallCompare ==
    /\ pc = "ready"
    /\ shared_list' \in compare_vulnerabilities(vuln1_issues, vuln2_issues)
    /\ pc' = "done"
    /\ UNCHANGED <<vuln1_issues, vuln2_issues>>
    /\ UNCHANGED <<simVars, slitherVars, flattenVars, xrefVars, corpusVars, riskVars, scanVars>>

NextCompare == CallCompare

SpecCompare == InitCompare /\ [][NextCompare]_vars

TypesOf(issues) == {issues[n].type : n \in 1..Len(issues)}

\* C17: the list returned holds exactly one entry for every category found
\* in both finding lists and no other entry, each entry with the severity
\* of the first finding of its category in the first list.
C17_OneEntryPerSharedCategory ==
    pc = "done" =>
        /\ TypesOf(shared_list) = TypesOf(vuln1_issues) \cap TypesOf(vuln2_issues)
        /\ \A m, n \in 1..Len(shared_list) :
              shared_list[m].type = shared_list[n].type => m = n
        /\ \A n \in 1..Len(shared_list) :
              \E k \in 1..Len(vuln1_issues) :
                 /\ vuln1_issues[k].type = shared_list[n].type
                 /\ vuln1_issues[k].severity = shared_list[n].severity
                 /\ \A h \in 1..(k - 1) : vuln1_issues[h].type # shared_list[n].type

\* {X: High, Y: Low} against {X: High, Z: Medium} gives X with High
C17_Witness ==
    /\ pc = "done"
    /\ vuln1_issues = <<[type |-> "reentrancy-eth", severity |-> "High"],
                   [type |-> "unused-return", severity |-> "Low"]>>
    /\ vuln2_issues = <<[type |-> "reentrancy-eth", severity |-> "High"],
                   [type |-> "timestamp", severity |-> "Medium"]>>
    /\ shared_list = <<[type |-> "reentrancy-eth", severity |-> "High"]>>

\* position of the first finding of the category in the list
FirstIndex(issues, vuln_type) ==
    CHOOSE i \in 1..Len(issues) :
        /\ issues[i].type = vuln_type
        /\ \A j \in 1..(i - 1) : issues[j].type # vuln_type

\* the entries are in non-decreasing rank: High, Medium, Low,
\* Informational, Optimization, then the unrecognized labels
RankOrdered ==
    \A m, n \in 1..Len(shared_list) :
        m < n => SeverityRank(shared_list[m].severity) <= SeverityRank(shared_list[n].severity)

\* entries of equal rank are in the order in which their categories first
\* occur in the first finding list
TiesInInsertionOrder ==
    \A m, n \in 1..Len(shared_list) :
        (m < n /\ SeverityRank(shared_list[m].severity) = SeverityRank(shared_list[n].severity))
            => FirstIndex(vuln1_issues, shared_list[m].type)
                   < FirstIndex(vuln1_issues, shared_list[n].type)

\* C23: the shared categories are ordered by severity rank, unrecognized
\* labels last, and entries of equal rank keep the order of their first
\* occurrence in the first contract's finding list.
C23_RankThenInsertionOrder ==
    pc = "done" => RankOrdered /\ TiesInInsertionOrder

---------------------------------------------------------------------------
(* run_mythril_prioritized.get_high_risk_contracts, followed by the        *)
(* cross-reference run on the same similarity report                       *)

\* the mutant of RiskUpdate: the score first given to an address is kept
RiskUpdate_KeepFirst(risk, addr, score) ==
    IF addr = "" \/ \E m \in 1..Len(risk) : risk[m].addr = addr THEN risk
    ELSE Append(risk, [addr |-> addr, score |-> RatMax(Zero, score)])

\* contract_risk[addr] = max(contract_risk.get(addr, 0), risk_score); the
\* dict keeps its keys in the order of their first insertion
RiskUpdate(risk, addr, score) ==
    IF addr = "" THEN risk
    ELSE IF \E m \in 1..Len(risk) : risk[m].addr = addr
    THEN [m \in 1..Len(risk) |->
             IF risk[m].addr = addr
             THEN [addr |-> addr, score |-> RatMax(risk[m].score, score)]
             ELSE risk[m]]
    ELSE Append(risk, [addr |-> addr, score |-> RatMax(Zero, score)])

\* the mutant of RiskStep: only the first contract of a pair is scored
RiskStep_FirstOnly(risk, pair_data, threshold) ==
    LET full_sim == pair_data.full_similarity
        partial_sim == pair_data.partial_similarity
    IN  IF RatLeq(threshold, full_sim) \/ RatLeq(threshold, partial_sim)
        THEN RiskUpdate(risk, pair_data.contract1, RatMax(full_sim, partial_sim))
        ELSE risk

\* lines 42-58: one iteration of the loop over the pairs
RiskStep(risk, pair_data, threshold) ==
    LET full_sim == pair_data.full_similarity
        partial_sim == pair_data.partial_similarity
        risk_score == RatMax(full_sim, partial_sim)
    IN  IF RatLeq(threshold, full_sim) \/ RatLeq(threshold, partial_sim)
        THEN RiskUpdate(RiskUpdate(risk, pair_data.contract1, risk_score),
                        pair_data.contract2, risk_score)
        ELSE risk

\* lines 38-58: the risk map after the pairs from i on
RECURSIVE RiskMap(_, _, _, _)
RiskMap(report_pairs, i, risk, threshold) ==
    IF i > Len(report_pairs) THEN risk
    ELSE RiskMap(report_pairs, i + 1, RiskStep(risk, report_pairs[i], threshold),
                 threshold)

\* sorted(..., key=score, reverse=True): stable, highest first
RECURSIVE InsertByScore(_, _)
InsertByScore(sorted, x) ==
    IF sorted = <<>> THEN <<x>>
    ELSE IF RatLeq(x.score, Head(sorted).score)
         THEN <<Head(sorted)>> \o InsertByScore(Tail(sorted), x)
         ELSE <<x>> \o sorted

RECURSIVE SortByScore(_, _)
SortByScore(list, i) ==
    IF i = 0 THEN <<>> ELSE InsertByScore(SortByScore(list, i - 1), list[i])

\* lines 23-63
get_high_risk_contracts(similarity_report, threshold) ==
    IF similarity_report = <<>> THEN <<>>
    ELSE LET risk == RiskMap(similarity_report, 1, <<>>, threshold)
             ranked == SortByScore(risk, Len(risk))
         IN  [m \in 1..Len(ranked) |-> ranked[m].addr]

InitRisk ==
    /\ pc = "prioritize"
    /\ similarity \in SimilarityMatrices
    /\ vulnerabilities \in VulnerabilitySets
    /\ high_risk_pairs = <<>>
    /\ idx = 0
    /\ results = <<>>
    /\ pairs_with_shared_vulns = 0
    /\ pairs_both_analyzed = 0
    /\ crossref_json = NoFile
    /\ crossref_md = NoFile
    /\ crossref_outcome = None
    /\ contract_risk = <<>>
    /\ sorted_contracts = <<>>
    /\ SimIdle
    /\ SlitherIdle
    /\ FlattenIdle
    /\ CorpusIdle
    /\ CompareIdle
    /\ ScanIdle

\* the contracts of the similarity report are ranked by risk
Prioritize ==
    /\ pc = "prioritize"
    /\ contract_risk' = IF similarity = <<>> THEN <<>>
                        ELSE RiskMap(similarity, 1, <<>>, Threshold)
    /\ sorted_contracts' = get_high_risk_contracts(similarity, Threshold)
    /\ pc' = "start"
    /\ UNCHANGED <<simVars, slitherVars, flattenVars, xrefVars, corpusVars, compareVars, scanVars>>

\* the cross-reference run, the risk map kept as it is
XrefAfterPrioritize ==
    /\ NextXref
    /\ UNCHANGED riskVars

NextRisk == Prioritize \/ XrefAfterPrioritize

SpecRisk == InitRisk /\ [][NextRisk]_vars

\* the analysis of the contract is missing or failed
NotAnalyzed(a) == ~(vulnerabilities[a].present /\ vulnerabilities[a].success)

\* the contract belongs to a record on or above the threshold
InHighRiskPair(a) ==
    \E n \in 1..Len(similarity) :
        /\ a \in {similarity[n].contract1, similarity[n].contract2}
        /\ \/ RatLeq(Threshold, similarity[n].full_similarity)
           \/ RatLeq(Threshold, similarity[n].partial_similarity)

\* C18: a contract whose analysis is missing or failed is in no
\* cross-reference result, and it has a risk score in the risk map when it
\* belongs to a high-risk pair.
C18_UnanalyzedSkippedButRanked ==
    pc # "prioritize" =>
        \A a \in Addresses :
            NotAnalyzed(a) =>
                /\ \A n \in 1..Len(results) :
                      a \notin {results[n].contract1, results[n].contract2}
                /\ InHighRiskPair(a) =>
                      /\ \E m \in 1..Len(contract_risk) : contract_risk[m].addr = a
                      /\ \E m \in 1..Len(sorted_contracts) : sorted_contracts[m] = a

C18_Witness ==
    /\ pc = "done"
    /\ results # <<>>
    /\ \E a \in Addresses :
          /\ NotAnalyzed(a)
          /\ vulnerabilities[a].issues # <<>>
          /\ InHighRiskPair(a)

\* the larger scores of the high-risk records the contract belongs to
PairScoresOf(a) ==
    {RatMax(similarity[n].full_similarity, similarity[n].partial_similarity) :
        n \in {k \in 1..Len(similarity) :
                  /\ a \in {similarity[k].contract1, similarity[k].contract2}
                  /\ ReachesThreshold(similarity[k])}}

\* the risk score the map gives to a contract
RiskScoreOf(a) ==
    LET m == CHOOSE k \in 1..Len(contract_risk) : contract_risk[k].addr = a
    IN  contract_risk[m].score

\* C20: the contracts returned are the addresses of the high-risk pairs,
\* each once and no other; the risk score of each is the largest score of
\* the high-risk pairs it belongs to, and the list is in non-increasing
\* order of risk score.
C20_RiskIsMaxAndOrdered ==
    pc # "prioritize" =>
        /\ Range(sorted_contracts) = {a \in Addresses : PairScoresOf(a) # {}}
        /\ Len(sorted_contracts) = Cardinality(Range(sorted_contracts))
        /\ {contract_risk[m].addr : m \in 1..Len(contract_risk)} = Range(sorted_contracts)
        /\ Len(contract_risk) = Len(sorted_contracts)
        /\ \A a \in Range(sorted_contracts) :
              /\ RiskScoreOf(a) \in PairScoresOf(a)
              /\ \A x \in PairScoresOf(a) : RatLeq(x, RiskScoreOf(a))
        /\ \A m \in 1..(Len(sorted_contracts) - 1) :
              RatLeq(RiskScoreOf(sorted_contracts[m + 1]), RiskScoreOf(sorted_contracts[m]))

\* a contract of two high-risk pairs takes the larger score and the
\* contracts come out by score, not in order of appearance
C20_Witness ==
    /\ pc = "start"
    /\ sorted_contracts = <<"0xA", "0xC", "0xB">>
    /\ RiskScoreOf("0xA") = One
    /\ RiskScoreOf("0xB") = Threshold
    /\ \E a \in Addresses : Cardinality(PairScoresOf(a)) = 2

\* the addresses of the pairs find_high_risk_clones returned
CloneAddresses ==
    UNION {{high_risk_pairs[m].contract1, high_risk_pairs[m].contract2} :
              m \in 1..Len(high_risk_pairs)}

\* C29: on the same similarity matrix and threshold the addresses
\* get_high_risk_contracts returns are the contract1 and contract2
\* addresses of the pairs find_high_risk_clones returns.
C29_SameAddressesAsClones ==
    pc \in {"loop", "report", "done"} => Range(sorted_contracts) = CloneAddresses

\* one of two records is on the threshold: its two addresses are returned
\* by both, the third address of the matrix by neither
C29_Witness ==
    /\ pc = "loop"
    /\ Len(similarity) = 2
    /\ Len(high_risk_pairs) = 1
    /\ Range(sorted_contracts) = {"0xA", "0xC"}
    /\ CloneAddresses = {"0xA", "0xC"}

---------------------------------------------------------------------------
(* The vulnerability scans that write vulnerability_report.json:           *)
(* run_complete_analysis.main with analyze_with_slither, and main.py with  *)
(* NFTContractAnalyzer.vulnerability_report and                            *)
(* MythrilAnalyzer.analyze_address.                                        *)
(*                                                                         *)
(* What the environment does during one analysis is an input of the step:  *)
(* whether the contract file exists and opens, how the analyzer run ends,  *)
(* and what the output file holds.                                         *)

MaxScanned == 2

\* a detector of Slither's output: impact and check are the values of the
\* keys, or None where the key is missing
Detectors ==
    [impact : {"High", "Low", None}, check : {"reentrancy-eth", None},
     description : {"Reentrancy in withdraw()"}]

DetectorLists == SeqsUpTo(Detectors, MaxIssues)

\* how one call of analyze_with_slither goes
SlitherRuns ==
    [kind : {"open_error", "run_error", "timeout", "no_output", "unreadable",
             "remove_error", "slither_failed", "bad_results"},
     detectors : {<<>>}]
    \cup [kind : {"ok"}, detectors : DetectorLists]

\* lines 112-127 and 92-110: the record returned for a failed analysis
FailureRecord(addr, error) ==
    [success |-> FALSE, address |-> addr, error |-> error,
     issues |-> <<>>, issue_count |-> 0]

\* lines 72-79: the issue made from a detector
IssueOf(detector) ==
    [severity |-> IF detector.impact = None THEN "Unknown" ELSE detector.impact,
     type |-> IF detector.check = None THEN "unknown" ELSE detector.check,
     description |-> detector.description]

\* lines 69, 81-82: severity_counts after the loop over the detectors
SeverityCounts(issues) ==
    [sev \in {"High", "Medium", "Low", "Informational", "Optimization"} |->
        Cardinality({i \in 1..Len(issues) : issues[i].severity = sev})]

\* the mutant of analyze_with_slither: a timeout is reported as a success
\* without findings
analyze_with_slither_TimeoutPasses(addr, run) ==
    IF run.kind = "ok" \/ run.kind = "timeout"
    THEN LET issues == [i \in 1..Len(run.detectors) |-> IssueOf(run.detectors[i])]
         IN  [success |-> TRUE, address |-> addr, issues |-> issues,
              issue_count |-> Len(issues), severity_breakdown |-> SeverityCounts(issues)]
    ELSE FailureRecord(addr, run.kind)

\* lines 27-127: the record the call returns; every exception of the body
\* is caught and turned into a failure record
analyze_with_slither(addr, run) ==
    CASE run.kind = "open_error" -> FailureRecord(addr, "OSError")
      [] run.kind = "run_error" -> FailureRecord(addr, "FileNotFoundError")
      [] run.kind = "timeout" -> FailureRecord(addr, "Analysis timeout (60s)")
      [] run.kind = "no_output" ->
            FailureRecord(addr, "Slither did not produce output file")
      [] run.kind = "unreadable" -> FailureRecord(addr, "JSONDecodeError")
      [] run.kind = "remove_error" -> FailureRecord(addr, "PermissionError")
      [] run.kind = "slither_failed" -> FailureRecord(addr, "Slither error")
      [] run.kind = "bad_results" -> FailureRecord(addr, "AttributeError")
      [] run.kind = "ok" ->
            LET issues == [i \in 1..Len(run.detectors) |-> IssueOf(run.detectors[i])]
            IN  [success |-> TRUE, address |-> addr, issues |-> issues,
                 issue_count |-> Len(issues),
                 severity_breakdown |-> SeverityCounts(issues)]

\* lines 308-313: the record of a contract whose file is missing
FileNotFoundRecord ==
    [success |-> FALSE, error |-> "Contract file not found",
     issues |-> <<>>, issue_count |-> 0]

\* an issue of a Mythril report, as lines 62-70 of mythril_analyzer.py
\* make it
MythrilIssue(severity) ==
    [title |-> "External Call To User-Supplied Address",
     description |-> "A call to a user-supplied address is executed.",
     severity |-> severity, contract |-> "MAIN", function |-> "withdraw()",
     swc_id |-> "107", bytecode_offsets |-> <<1>>]

MythrilIssues == {MythrilIssue("High"), MythrilIssue("Low")}

\* how one call of analyze_address goes: an exception, or a report
MythrilRuns ==
    [kind : {"error"}, issues : {<<>>}]
    \cup [kind : {"ok"}, issues : SeqsUpTo(MythrilIssues, MaxIssues)]

\* mythril_analyzer.py lines 36-91
analyze_address(addr, run) ==
    IF run.kind = "error" THEN FailureRecord(addr, "Exception")
    ELSE [success |-> TRUE, address |-> addr, issues |-> run.issues,
          issue_count |-> Len(run.issues),
          severity_breakdown |->
              [sev \in {"High", "Medium", "Low"} |->
                  Cardinality({i \in 1..Len(run.issues) : run.issues[i].severity = sev})],
          analysis_type |-> "bytecode"]

\* the addresses given to a scan, in order
ScanAddresses == <<"0xA", "0xB", "0xC">>

InitScan ==
    /\ pipeline \in {"main", "run_complete_analysis"}
    /\ pc = IF pipeline = "main" THEN "mythril" ELSE "check"
    /\ \E n \in 0..Min(MaxScanned, Len(ScanAddresses)) :
          contract_addresses = SubSeq(ScanAddresses, 1, n)
    /\ scan_idx = 0
    /\ scan_log = <<>>
    /\ vulnerability_report = EmptyDict
    /\ vuln_successful = 0
    /\ vuln_failed = 0
    /\ total_issues = 0
    /\ total_high = 0
    /\ total_medium = 0
    /\ total_low = 0
    /\ vulnerability_json = None
    /\ SimIdle
    /\ SlitherIdle
    /\ FlattenIdle
    /\ XrefIdle
    /\ CorpusIdle
    /\ CompareIdle
    /\ RiskIdle

\* run_complete_analysis.py lines 271-286: without a working Slither the
\* script returns before the scan
ScanCheck ==
    /\ pc = "check"
    /\ \E found \in BOOLEAN : pc' = IF found THEN "scan" ELSE "skipped"
    /\ UNCHANGED scanVars
    /\ UNCHANGED <<simVars, slitherVars, flattenVars, xrefVars, corpusVars, compareVars, riskVars>>

\* run_complete_analysis.py lines 301-349: one round of the loop
ScanContract ==
    /\ pc = "scan"
    /\ scan_idx < Len(contract_addresses)
    /\ LET addr == contract_addresses[scan_idx + 1]
       IN  \E exists \in BOOLEAN, run \in SlitherRuns :
              IF ~exists
              THEN /\ run.kind = "no_output"
                   /\ scan_log' = Append(scan_log, "file_missing")
                   /\ vulnerability_report' =
                          DictSet(vulnerability_report, addr, FileNotFoundRecord)
                   /\ vuln_failed' = vuln_failed + 1
                   /\ UNCHANGED <<vuln_successful, total_issues, total_high,
                                  total_medium, total_low>>
              ELSE LET result == analyze_with_slither(addr, run)
                   IN  /\ scan_log' = Append(scan_log, run.kind)
                       /\ vulnerability_report' =
                              DictSet(vulnerability_report, addr, result)
                       /\ IF result.success
                          THEN /\ vuln_successful' = vuln_successful + 1
                               /\ total_issues' = total_issues + result.issue_count
                               /\ total_high' = total_high + result.severity_breakdown["High"]
                               /\ total_medium' =
                                      total_medium + result.severity_breakdown["Medium"]
                               /\ total_low' = total_low + result.severity_breakdown["Low"]
                               /\ UNCHANGED vuln_failed
                          ELSE /\ vuln_failed' = vuln_failed + 1
                               /\ UNCHANGED <<vuln_successful, total_issues, total_high,
                                              total_medium, total_low>>
    /\ scan_idx' = scan_idx + 1
    /\ UNCHANGED <<pc, pipeline, contract_addresses, vulnerability_json>>
    /\ UNCHANGED <<simVars, slitherVars, flattenVars, xrefVars, corpusVars, compareVars, riskVars>>

\* run_complete_analysis.py lines 352-353: the report is written
ScanSave ==
    /\ pc = "scan"
    /\ scan_idx = Len(contract_addresses)
    /\ vulnerability_json' = vulnerability_report
    /\ pc' = "done"
    /\ UNCHANGED <<pipeline, contract_addresses, scan_idx, scan_log,
                   vulnerability_report, vuln_successful, vuln_failed, total_issues, total_high,
                   total_medium, total_low>>
    /\ UNCHANGED <<simVars, slitherVars, flattenVars, xrefVars, corpusVars, compareVars, riskVars>>

\* nft_contract_analyzer.py lines 67-87: one round of the loop of
\* vulnerability_report
MythrilContract ==
    /\ pc = "mythril"
    /\ scan_idx < Len(contract_addresses)
    /\ LET addr == contract_addresses[scan_idx + 1]
       IN  \E run \in MythrilRuns :
              /\ scan_log' = Append(scan_log, run.kind)
              /\ vulnerability_report' =
                     DictSet(vulnerability_report, addr, analyze_address(addr, run))
    /\ scan_idx' = scan_idx + 1
    /\ UNCHANGED <<pc, pipeline, contract_addresses, vuln_successful, vuln_failed,
                   total_issues, total_high, total_medium, total_low,
                   vulnerability_json>>
    /\ UNCHANGED <<simVars, slitherVars, flattenVars, xrefVars, corpusVars, compareVars, riskVars>>

\* main.py lines 28-33: the report returned is written
MythrilSave ==
    /\ pc = "mythril"
    /\ scan_idx = Len(contract_addresses)
    /\ vulnerability_json' = vulnerability_report
    /\ pc' = "done"
    /\ UNCHANGED <<pipeline, contract_addresses, scan_idx, scan_log,
                   vulnerability_report, vuln_successful, vuln_failed, total_issues, total_high,
                   total_medium, total_low>>
    /\ UNCHANGED <<simVars, slitherVars, flattenVars, xrefVars, corpusVars, compareVars, riskVars>>

NextScan == ScanCheck \/ ScanContract \/ ScanSave \/ MythrilContract \/ MythrilSave

SpecScan == InitScan /\ [][NextScan]_vars

\* the addresses analyzed so far
Scanned == {contract_addresses[i] : i \in 1..scan_idx}

\* C25: in the scan of run_complete_analysis every failure of an analysis
\* (missing file, analyzer error, timeout, unreadable output) becomes a
\* failure record of its address and the loop goes on: after every round each
\* address analyzed so far has its record and the two counters add up to
\* their number; when the report is written these are all the addresses
\* retrieved.
C25_FailuresRecordedLoopContinues ==
    pipeline = "run_complete_analysis" /\ pc \in {"scan", "done"} =>
        /\ DOMAIN vulnerability_report = Scanned
        /\ vuln_successful + vuln_failed = scan_idx
        /\ vuln_successful =
              Cardinality({a \in Scanned : vulnerability_report[a].success})
        /\ \A i \in 1..scan_idx :
              LET entry == vulnerability_report[contract_addresses[i]]
              IN  IF scan_log[i] = "ok" THEN entry.success
                  ELSE ~entry.success /\ entry.issues = <<>> /\ "error" \in DOMAIN entry
        /\ pc = "done" =>
              /\ scan_idx = Len(contract_addresses)
              /\ DOMAIN vulnerability_json = Range(contract_addresses)

\* a missing file and a timeout are recorded and the scan still ends with
\* the report written
C25_Witness ==
    /\ pc = "done"
    /\ pipeline = "run_complete_analysis"
    /\ Len(contract_addresses) = 2
    /\ vulnerability_json["0xA"] = FileNotFoundRecord
    /\ vulnerability_json["0xB"] = FailureRecord("0xB", "Analysis timeout (60s)")
    /\ vuln_failed = 2

\* C28: every issue of a successful record of the report written carries
\* the fields 'type' and 'severity' that compare_vulnerabilities reads.
C28_IssuesCarryTypeAndSeverity ==
    pc = "done" =>
        \A a \in DOMAIN vulnerability_json :
            vulnerability_json[a].success =>
                \A i \in 1..Len(vulnerability_json[a].issues) :
                    {"type", "severity"} \subseteq DOMAIN vulnerability_json[a].issues[i]

====
